---- MODULE Spec2Model ----
(***************************************************************************)
(* The AI session orchestrator of k9s-ai (internal/ai/client.go) and the   *)
(* skill registry it filters its tools with (internal/ai/skills.go).       *)
(*                                                                         *)
(* The orchestrator (AIClient) is shared by several goroutines.  Every     *)
(* method that touches its state takes the RWMutex mx; Init, EnsureSession *)
(* and ListModels keep it while they wait for the runtime, Send does not   *)
(* hold it while it talks to the session.  A goroutine is a thread of the  *)
(* model, op[t] is the exported method it is inside and pc[t] its place    *)
(* in the code.  The runtime (the Copilot SDK client and its sessions) is  *)
(* the environment: every call into it ends with one of the outcomes the   *)
(* SDK can report.                                                         *)
(***************************************************************************)
EXTENDS Integers, Sequences, FiniteSets, TLC

\* ------------------------------------------------------------- bounds
MaxCalls == 3     \* method calls in a run
MaxEvents == 1    \* session events in a run
MaxLen == 3       \* tools in a list given to the registry alone

\* Two calls can be in flight at once.
Threads == { 1, 2 }
\* A call makes at most one runtime client and at most one session.
ClientIds == 1..MaxCalls
SessionIds == 1..MaxCalls

\* ------------------------------------------------------ skill registry
EightTools ==
  << "get_resource", "list_resources", "describe_resource", "get_logs",
     "get_events", "get_cluster_health", "get_pod_diagnostics", "check_rbac" >>

\* The tools the host registers: the eight built-in ones, and a tool that no
\* skill names.
ToolLists == { EightTools \o << "custom_tool" >> }

NewSkillRegistry ==
  [ diagnostics |->
      [ ToolNames |-> << "get_pod_diagnostics", "get_logs", "get_events",
                         "describe_resource", "get_cluster_health", "get_resource" >>,
        SystemSuffix |-> "Focus: Root-cause analysis and remediation." ],
    security |->
      [ ToolNames |-> << "check_rbac", "get_resource", "describe_resource",
                         "list_resources" >>,
        SystemSuffix |-> "Focus: Security posture and RBAC analysis." ],
    optimization |->
      [ ToolNames |-> << "get_cluster_health", "list_resources", "get_resource",
                         "describe_resource", "get_pod_diagnostics" >>,
        SystemSuffix |-> "Focus: Resource efficiency, cost optimization, and scaling recommendations." ] ]

skills == NewSkillRegistry

Range(s) == { s[i] : i \in 1..Len(s) }

\* FilterTools refusing every tool to a skill it does not know.
FilterToolsFailClosed(skillName, all) ==
  IF skillName = "" THEN all
  ELSE IF skillName \notin DOMAIN skills THEN << >>
  ELSE LET allowed == Range(skills[skillName].ToolNames)
       IN  SelectSeq(all, LAMBDA t : t \in allowed)

\* FilterTools keeping one tool of each name.
FilterToolsOncePerName(skillName, all) ==
  IF skillName = "" THEN all
  ELSE IF skillName \notin DOMAIN skills THEN all
  ELSE LET allowed == Range(skills[skillName].ToolNames)
           first == [ i \in 1..Len(all) |-> \A j \in 1..(i - 1) : all[j] # all[i] ]
           keep == { i \in 1..Len(all) : all[i] \in allowed /\ first[i] }
           nth[k \in 0..Len(all)] ==
             IF k = 0 THEN << >>
             ELSE IF k \in keep THEN Append(nth[k - 1], all[k]) ELSE nth[k - 1]
       IN  nth[Len(all)]

FilterTools(skillName, all) ==
  IF skillName = "" THEN all
  ELSE IF skillName \notin DOMAIN skills THEN all
  ELSE LET allowed == Range(skills[skillName].ToolNames)
       IN  SelectSeq(all, LAMBDA t : t \in allowed)

SystemMessageSuffix(skillName) ==
  IF skillName = "" THEN ""
  ELSE IF skillName \notin DOMAIN skills THEN ""
  ELSE skills[skillName].SystemSuffix

k9sSystemMessage == "You are an expert Kubernetes cluster assistant integrated into K9s"

\* The system message of a new session: the base text, then the skill's suffix
\* after a blank line when the suffix is not empty.
SystemMessage(skillName) ==
  IF SystemMessageSuffix(skillName) # ""
    THEN << k9sSystemMessage, "\n\n", SystemMessageSuffix(skillName) >>
    ELSE << k9sSystemMessage >>

\* ---------------------------------------------------------------- inputs
Models == { "gpt-4.1", "gpt-4o" }
SkillNames == { "", "security", "nosuch" }

\* ----------------------------------------------------------------- state
VARIABLES
  enabled,       \* cfg.Enabled
  cfgModel,      \* cfg.Model
  cfgSkill,      \* cfg.ActiveSkill
  initialized,   \* AIClient.initialized
  client,        \* AIClient.client: 0 is nil, else a runtime client handle
  session,       \* AIClient.session: 0 is nil, else a session handle
  allTools,      \* AIClient.allTools
  tools,         \* AIClient.tools
  mxWriter,      \* the thread holding mx exclusively, 0 when none does
  mxReaders,     \* the threads holding mx shared
  clients,       \* the runtime's client handles: what NewClient, Start and Stop did to each
  sessions,      \* the runtime's sessions: configuration, liveness, subscribed handlers
  op,            \* the exported method a thread is inside (or has last returned from)
  pc,            \* its place in the code
  calls,         \* the listener callbacks of the thread's current Send, in order
  result,        \* the value the thread's last call returned
  held,          \* Send's local variable session
  resp,          \* what SendAndWait returned to the thread
  initAttempts,  \* how often the thread's current call has entered Init
  nEvents,       \* session events emitted so far
  nCalls,        \* method calls made so far
  cfg,           \* the fields of c.cfg that no variable above holds
  env,           \* the environment variables of the process
  host,          \* the machine: its platform, its search path, the cache directory
  opts,          \* the ClientOptions Init made its last runtime client with
  cluster,       \* the cluster the tools read: its resources, its events, a pod's log
  inv,           \* the last invocation of a tool: its name, its parameters, what it returned
  view           \* the chat view: its streaming flag, the sendMessage goroutines past it

cfgVars == << enabled, cfgModel, cfgSkill, cfg >>
extVars == << env, host, opts, cluster, inv, view >>
orchVars == << initialized, client, session, allTools, tools >>
lockVars == << mxWriter, mxReaders >>
rtVars == << clients, sessions >>
thrVars == << op, pc, calls, result, held, resp, initAttempts >>
vars == << enabled, cfgModel, cfgSkill, initialized, client, session, allTools,
           tools, mxWriter, mxReaders, clients, sessions, op, pc, calls, result,
           held, resp, initAttempts, nEvents, nCalls, cfg, env, host, opts, cluster,
           inv, view >>

\* ------------------------------------------------------- configuration

\* A pointer is a sequence: empty when nil, else the one value it points to.
Nil == << >>
Ref(v) == << v >>

DefaultModel == "gpt-4.1"
DefaultMaxContextLines == 500

\* config.NewAI: the fields besides Enabled, Model and ActiveSkill.
NewAI ==
  [ Provider |-> Nil, Streaming |-> TRUE, MaxContextLines |-> DefaultMaxContextLines,
    AutoDiagnose |-> FALSE, ReasoningEffort |-> "", GitHubToken |-> "" ]

\* The environment variables the program and its documentation name.
EnvNames == { "COPILOT_CLI_PATH", "K9S_AI_API_KEY", "K9S_AI_BEARER_TOKEN",
              "K9S_AI_GITHUB_TOKEN" }

\* os.Getenv: the empty text for a variable that is not set.
Getenv(name) == env[name]

ResolveAPIKey(p) == IF p.APIKey # "" THEN p.APIKey ELSE Getenv("K9S_AI_API_KEY")

ResolveBearerToken(p) ==
  IF p.BearerToken # "" THEN p.BearerToken ELSE Getenv("K9S_AI_BEARER_TOKEN")

ResolveGitHubToken(a) == a.GitHubToken

\* The provider block made for every provider, whatever its endpoint.
ProviderConfiguredAnyURL == cfg.Provider # Nil

\* createSession's test for the provider block.
ProviderConfigured == cfg.Provider # Nil /\ cfg.Provider[1].BaseURL # ""

\* sessionCfg.Provider as createSession builds it: nil without a configured
\* provider, else the type, the endpoint, the resolved credentials, the wire
\* protocol and the Azure options.
SessionProvider ==
  IF ProviderConfigured
    THEN LET p == cfg.Provider[1]
         IN  Ref([ Type |-> p.Type, BaseURL |-> p.BaseURL,
                   APIKey |-> ResolveAPIKey(p),
                   BearerToken |-> ResolveBearerToken(p),
                   WireApi |-> p.WireAPI,
                   Azure |-> IF p.Azure # Nil /\ p.Azure[1].APIVersion # ""
                               THEN Ref([ APIVersion |-> p.Azure[1].APIVersion ])
                               ELSE Nil ])
    ELSE Nil

NoSession ==
  [ status |-> "free", model |-> "", skill |-> "", systemMsg |-> << >>,
    tools |-> << >>, client |-> 0, subs |-> {}, destroyedBy |-> "",
    streaming |-> FALSE, reasoningEffort |-> "", provider |-> Nil ]

\* mx.Lock() returns only when nobody holds the lock; mx.RLock() when no writer does.
CanLock == mxWriter = 0 /\ mxReaders = {}
CanRLock == mxWriter = 0

\* config.AI.IsEnabled: the configuration's enabled flag.
IsEnabled == enabled

NewClientId == Cardinality({ c \in ClientIds : clients[c] # "none" }) + 1
NewSessionId == Cardinality({ s \in SessionIds : sessions[s].status # "free" }) + 1

\* session.Destroy() of the cached session, as every method calls it before it
\* drops the reference.
Destroyed(ss, s, by) ==
  IF s = 0 THEN ss
  ELSE [ ss EXCEPT ![s].status = "destroyed", ![s].destroyedBy = by ]

\* --------------------------------------------------- runtime resolver

\* platformPackage: the npm package suffix of each supported GOOS/GOARCH.
platformPackage ==
  [ p \in { "darwin/arm64", "darwin/amd64", "linux/amd64", "linux/arm64",
            "windows/amd64", "windows/arm64" } |->
      CASE p = "darwin/arm64" -> "darwin-arm64"
        [] p = "darwin/amd64" -> "darwin-x64"
        [] p = "linux/amd64" -> "linux-x64"
        [] p = "linux/arm64" -> "linux-arm64"
        [] p = "windows/amd64" -> "win32-x64"
        [] p = "windows/arm64" -> "win32-arm64" ]

\* What exec.LookPath("copilot") finds, and the binary's place in the cache
\* directory of the pinned version.
LookPathCopilot == "/usr/local/bin/copilot"
cachedPath == "k9s-ai/cli/0.0.420/copilot"

\* How the registry lookup (resolveTarballURL) can end, and how the download
\* and the extraction of the archive can: "writefail" is an error while the
\* binary is being copied into the file extractCopilotBinary has created.
RegistryOutcomes == { "ok", "error", "status", "badjson", "notarball" }
DownloadOutcomes == { "ok", "error", "status", "badgzip", "nobinary", "createfail",
                      "writefail" }

\* A machine on which copilot is on the search path.
HostWithCopilot ==
  [ platform |-> "linux/amd64", overrideFile |-> FALSE, onPath |-> TRUE,
    cacheDir |-> TRUE, cacheFile |-> "absent", net |-> << >>, log |-> "" ]

\* downloadCopilotCLI asking the registry before it looks at the platform.
downloadLooksUpFirst(h, reg, dl) ==
  LET h1 == [ h EXCEPT !.net = Append(@, "registry") ]
      h2 == [ h1 EXCEPT !.net = Append(@, "download") ]
  IN  IF reg # "ok" THEN [ err |-> "resolving download URL", host |-> h1 ]
      ELSE IF h.platform \notin DOMAIN platformPackage
        THEN [ err |-> "unsupported platform", host |-> h1 ]
      ELSE CASE dl = "error" -> [ err |-> "downloading", host |-> h2 ]
             [] dl = "status" -> [ err |-> "download returned", host |-> h2 ]
             [] dl \in { "badgzip", "nobinary", "createfail" } ->
                  [ err |-> "extracting", host |-> h2 ]
             [] dl = "writefail" ->
                  [ err |-> "extracting", host |-> [ h2 EXCEPT !.cacheFile = "partial" ] ]
             [] OTHER -> [ err |-> "nil", host |-> [ h2 EXCEPT !.cacheFile = "binary" ] ]

downloadCopilotCLI(h, reg, dl) ==
  IF h.platform \notin DOMAIN platformPackage
    THEN [ err |-> "unsupported platform", host |-> h ]
  ELSE LET h1 == [ h EXCEPT !.net = Append(@, "registry") ]
           h2 == [ h1 EXCEPT !.net = Append(@, "download") ]
       IN  IF reg # "ok" THEN [ err |-> "resolving download URL", host |-> h1 ]
           ELSE CASE dl = "error" -> [ err |-> "downloading", host |-> h2 ]
                  [] dl = "status" -> [ err |-> "download returned", host |-> h2 ]
                  [] dl \in { "badgzip", "nobinary", "createfail" } ->
                       [ err |-> "extracting", host |-> h2 ]
                  [] dl = "writefail" ->
                       [ err |-> "extracting", host |-> [ h2 EXCEPT !.cacheFile = "partial" ] ]
                  [] OTHER -> [ err |-> "nil", host |-> [ h2 EXCEPT !.cacheFile = "binary" ] ]

\* ResolveCopilotCLIPath looking on the search path before the override.
ResolvePathFirst(h, reg, dl) ==
  IF h.onPath THEN [ path |-> LookPathCopilot, host |-> h ]
  ELSE IF Getenv("COPILOT_CLI_PATH") # "" /\ h.overrideFile
    THEN [ path |-> Getenv("COPILOT_CLI_PATH"), host |-> h ]
  ELSE IF ~h.cacheDir THEN [ path |-> "", host |-> h ]
  ELSE IF h.cacheFile # "absent" THEN [ path |-> cachedPath, host |-> h ]
  ELSE LET d == downloadCopilotCLI(h, reg, dl)
       IN  IF d.err # "nil" THEN [ path |-> "", host |-> [ d.host EXCEPT !.log = d.err ] ]
           ELSE [ path |-> cachedPath, host |-> d.host ]

\* ResolveCopilotCLIPath on machine h: the path it returns ("" when it found
\* none) and the machine afterwards.  A failed download is logged, not returned.
ResolveCopilotCLIPath(h, reg, dl) ==
  IF Getenv("COPILOT_CLI_PATH") # "" /\ h.overrideFile
    THEN [ path |-> Getenv("COPILOT_CLI_PATH"), host |-> h ]
  ELSE IF h.onPath THEN [ path |-> LookPathCopilot, host |-> h ]
  ELSE IF ~h.cacheDir THEN [ path |-> "", host |-> h ]
  ELSE IF h.cacheFile # "absent" THEN [ path |-> cachedPath, host |-> h ]
  ELSE LET d == downloadCopilotCLI(h, reg, dl)
       IN  IF d.err # "nil" THEN [ path |-> "", host |-> [ d.host EXCEPT !.log = d.err ] ]
           ELSE [ path |-> cachedPath, host |-> d.host ]

\* ------------------------------------------------------------- tools

DefaultListLimit == 50
DefaultTailLines == 100
DefaultEventLimit == 30
maxBytes == 262144

Min(a, b) == IF a < b THEN a ELSE b

\* A cluster with nothing in it: no resources, no events, a pod that logged
\* nothing.
EmptyCluster ==
  [ objs |-> << >>, events |-> << >>, log |-> [ lines |-> 0, lineBytes |-> 0 ] ]

\* No tool was invoked yet.
NoInvocation == [ tool |-> "", params |-> << >>, err |-> "", result |-> << >> ]

listResourcesCountsPage(objs, params) ==
  LET limit == IF params.Limit <= 0 THEN DefaultListLimit ELSE params.Limit
      page == SubSeq(objs, 1, Min(limit, Len(objs)))
      shown == SelectSeq(page, LAMBDA o : o.unstructured)
  IN  [ summary |-> [ found |-> Len(shown),
                      showingFirst |-> IF Len(objs) > limit THEN Ref(limit) ELSE Nil ],
        resources |-> [ i \in 1..Len(shown) |-> shown[i].name ] ]

\* list_resources over the objects the factory listed.  The loop stops at
\* index limit and skips an object that is not an Unstructured; the summary
\* is "Found <n> <gvr> resources", with " (showing first <limit>)" after it
\* when there are more than limit.
listResources(objs, params) ==
  LET limit == IF params.Limit <= 0 THEN DefaultListLimit ELSE params.Limit
      page == SubSeq(objs, 1, Min(limit, Len(objs)))
      shown == SelectSeq(page, LAMBDA o : o.unstructured)
  IN  [ summary |-> [ found |-> Len(objs),
                      showingFirst |-> IF Len(objs) > limit THEN Ref(limit) ELSE Nil ],
        resources |-> [ i \in 1..Len(shown) |-> shown[i].name ] ]

getLogsUnlimited(log, params) ==
  LET tailLines == IF params.TailLines <= 0 THEN DefaultTailLines ELSE params.TailLines
  IN  [ tailLines |-> tailLines, bytes |-> Min(log.lines, tailLines) * log.lineBytes ]

\* get_logs of a pod whose log has log.lines lines of log.lineBytes bytes
\* each: the server streams the last tailLines lines, and the tool reads the
\* stream through a LimitedReader of maxBytes.
getLogs(log, params) ==
  LET tailLines == IF params.TailLines <= 0 THEN DefaultTailLines ELSE params.TailLines
      stream == Min(log.lines, tailLines) * log.lineBytes
  IN  [ tailLines |-> tailLines, bytes |-> Min(stream, maxBytes) ]

\* The loop of get_events: from the last event retrieved to the first, while
\* fewer than limit are kept, keeping the events of the type asked for.
RECURSIVE eventsLoop(_, _, _, _, _)
eventsLoop(items, i, results, limit, eventType) ==
  IF i < 1 \/ Len(results) >= limit THEN results
  ELSE IF eventType # "" /\ items[i].type # eventType
    THEN eventsLoop(items, i - 1, results, limit, eventType)
  ELSE eventsLoop(items, i - 1, Append(results, items[i]), limit, eventType)

\* What the API server lists for a field selector on the involved object's
\* name; no selector lists every event.
ListEvents(events, resourceName) ==
  SelectSeq(events, LAMBDA e : resourceName = "" \/ e.object = resourceName)

getEventsRetrievalOrder(events, params) ==
  LET items == ListEvents(events, params.ResourceName)
      limit == IF params.Limit <= 0 THEN DefaultEventLimit ELSE params.Limit
      kept == SelectSeq(items, LAMBDA e : params.EventType = "" \/ e.type = params.EventType)
  IN  [ total |-> Len(items), events |-> SubSeq(kept, 1, Min(limit, Len(kept))) ]

getEvents(events, params) ==
  LET items == ListEvents(events, params.ResourceName)
      limit == IF params.Limit <= 0 THEN DefaultEventLimit ELSE params.Limit
  IN  [ total |-> Len(items),
        events |-> eventsLoop(items, Len(items), << >>, limit, params.EventType) ]

\* No runtime client was made yet.
NoOptions == [ CLIPath |-> "", GitHubToken |-> "" ]

\* A chat view that has sent nothing: streaming is the flag sendMessage tests,
\* running the goroutines of sendMessage that have set it and not returned,
\* client whether the global ai.Client is set.
NoView == [ streaming |-> FALSE, running |-> {}, client |-> TRUE ]

\* The orchestrator as NewAIClient returns it, no call made yet.
OrchInit ==
  /\ initialized = FALSE
  /\ client = 0
  /\ session = 0
  /\ allTools = << >>
  /\ tools = << >>
  /\ mxWriter = 0
  /\ mxReaders = {}
  /\ clients = [ c \in ClientIds |-> "none" ]
  /\ sessions = [ s \in SessionIds |-> NoSession ]
  /\ op = [ t \in Threads |-> "none" ]
  /\ pc = [ t \in Threads |-> "idle" ]
  /\ calls = [ t \in Threads |-> << >> ]
  /\ result = [ t \in Threads |-> "none" ]
  /\ held = [ t \in Threads |-> 0 ]
  /\ resp = [ t \in Threads |-> "none" ]
  /\ initAttempts = [ t \in Threads |-> 0 ]
  /\ nEvents = 0
  /\ nCalls = 0
  /\ opts = NoOptions
  /\ inv = NoInvocation

InitState ==
  /\ enabled \in BOOLEAN
  /\ cfgModel = DefaultModel
  /\ cfgSkill = ""
  /\ cfg = NewAI
  /\ env = [ n \in EnvNames |-> "" ]
  /\ host = HostWithCopilot
  /\ cluster = EmptyCluster
  /\ view = NoView
  /\ OrchInit

\* One more method call, while the model's budget of calls lasts.
Counted ==
  /\ nCalls < MaxCalls
  /\ nCalls' = nCalls + 1

\* A thread enters an exported method.  A call runs on a goroutine of its
\* own, so the threads are the slots of the calls in flight and a new call
\* takes the first idle one.
Enter(t, method) ==
  /\ pc[t] = "idle"
  /\ \A u \in Threads : u < t => pc[u] # "idle"
  /\ Counted
  /\ op' = [ op EXCEPT ![t] = method ]

\* A thread returns r from the exported method it is inside: its locals, and
\* the listener it was given, are gone.
Return(t, r) ==
  /\ pc' = [ pc EXCEPT ![t] = "idle" ]
  /\ result' = [ result EXCEPT ![t] = r ]
  /\ calls' = [ calls EXCEPT ![t] = << >> ]
  /\ held' = [ held EXCEPT ![t] = 0 ]
  /\ resp' = [ resp EXCEPT ![t] = "none" ]
  /\ initAttempts' = [ initAttempts EXCEPT ![t] = 0 ]

\* A thread goes on inside its method: nothing is returned yet.
Goto(t, at) ==
  /\ pc' = [ pc EXCEPT ![t] = at ]
  /\ result' = [ result EXCEPT ![t] = "none" ]

\* A thread calls c.Init.
GotoInit(t) ==
  /\ Goto(t, "init_lock")
  /\ initAttempts' = [ initAttempts EXCEPT ![t] = @ + 1 ]
  /\ UNCHANGED << calls, held, resp >>

\* ------------------------------------------------- methods without a wait

\* SetTools storing the list it is given as the filtered list too.
SetToolsUnfiltered(ts) ==
  /\ CanLock
  /\ Counted
  /\ allTools' = ts
  /\ tools' = ts
  /\ UNCHANGED << cfgVars, initialized, client, session, lockVars, rtVars, thrVars, nEvents, extVars >>

SetTools(ts) ==
  /\ CanLock
  /\ Counted
  /\ allTools' = ts
  /\ tools' = FilterTools(cfgSkill, ts)
  /\ UNCHANGED << cfgVars, initialized, client, session, lockVars, rtVars, thrVars, nEvents, extVars >>

\* SetSkill filtering the full list in place.
SetSkillFiltersInPlace(name) ==
  /\ CanLock
  /\ Counted
  /\ cfgSkill' = name
  /\ allTools' = FilterTools(name, allTools)
  /\ tools' = FilterTools(name, allTools)
  /\ sessions' = Destroyed(sessions, session, "SetSkill")
  /\ session' = 0
  /\ UNCHANGED << enabled, cfg, cfgModel, initialized, client, lockVars, clients, thrVars,
                  nEvents, extVars >>

SetSkill(name) ==
  /\ CanLock
  /\ Counted
  /\ cfgSkill' = name
  /\ tools' = FilterTools(name, allTools)
  /\ sessions' = Destroyed(sessions, session, "SetSkill")
  /\ session' = 0
  /\ UNCHANGED << enabled, cfg, cfgModel, initialized, client, allTools, lockVars, clients,
                  thrVars, nEvents, extVars >>

\* SetModel without the reset of the session.
SetModelKeepsSession(model) ==
  /\ CanLock
  /\ Counted
  /\ cfgModel' = model
  /\ UNCHANGED << enabled, cfg, cfgSkill, orchVars, lockVars, rtVars, thrVars, nEvents, extVars >>

SetModel(model) ==
  /\ CanLock
  /\ Counted
  /\ cfgModel' = model
  /\ sessions' = Destroyed(sessions, session, "SetModel")
  /\ session' = 0
  /\ UNCHANGED << enabled, cfg, cfgSkill, initialized, client, allTools, tools, lockVars,
                  clients, thrVars, nEvents, extVars >>

\* ResetSession taking the runtime down with the session.
ResetSessionStopsRuntime ==
  /\ CanLock
  /\ Counted
  /\ sessions' = Destroyed(sessions, session, "ResetSession")
  /\ session' = 0
  /\ clients' = IF client = 0 THEN clients ELSE [ clients EXCEPT ![client] = "stopped" ]
  /\ client' = 0
  /\ initialized' = FALSE
  /\ UNCHANGED << cfgVars, allTools, tools, lockVars, thrVars, nEvents, extVars >>

ResetSession ==
  /\ CanLock
  /\ Counted
  /\ sessions' = Destroyed(sessions, session, "ResetSession")
  /\ session' = 0
  /\ UNCHANGED << cfgVars, initialized, client, allTools, tools, lockVars, clients,
                  thrVars, nEvents, extVars >>

\* ------------------------------------------------------------------ Init

\* Init returns err to the method that called it: Init itself, or the lazy
\* retry of Send and of ListModels, which wrap a failure and give up.
AfterInit(t, err) ==
  CASE op[t] = "Send" ->
         IF err = "nil" THEN Goto(t, "ensure_lock") /\ UNCHANGED << calls, held, resp, initAttempts >>
         ELSE Return(t, "AI not ready: copilot init failed")
    [] op[t] = "ListModels" ->
         IF err = "nil" THEN Goto(t, "lm_rlock") /\ UNCHANGED << calls, held, resp, initAttempts >>
         ELSE Return(t, "AI not ready: copilot init failed")
    [] OTHER -> Return(t, err)

\* Init without its test of initialized.
InitIsNoOpWhenDisabled == ~IsEnabled

\* Init has nothing to do: the client is disabled or already initialized.
InitIsNoOp == ~IsEnabled \/ initialized

\* initialized set before Start is known to have worked.
InitializedBeforeStart(ok) == TRUE

\* c.initialized once client.Start has returned (ok: without an error).
InitializedAfterStart(ok) == IF ok THEN TRUE ELSE initialized

\* The ClientOptions Init builds: the binary the resolver found, if any, and
\* the configured GitHub token, if any.
InitOptions(cliPath) == [ CLIPath |-> cliPath, GitHubToken |-> ResolveGitHubToken(cfg) ]

CallInit(t) ==
  /\ Enter(t, "Init")
  /\ GotoInit(t)
  /\ UNCHANGED << cfgVars, orchVars, lockVars, rtVars, nEvents, extVars >>

\* Init takes the lock, and unless it has nothing to do makes a new runtime
\* client and calls its Start, the lock still held.
InitLock(t) ==
  /\ pc[t] = "init_lock"
  /\ CanLock
  /\ IF InitIsNoOp
       THEN /\ AfterInit(t, "nil")
            /\ UNCHANGED << client, clients, lockVars, host, opts >>
       ELSE /\ \E reg \in RegistryOutcomes, dl \in DownloadOutcomes :
                 LET r == ResolveCopilotCLIPath(host, reg, dl)
                 IN  /\ host' = r.host
                     /\ opts' = InitOptions(r.path)
            /\ clients' = [ clients EXCEPT ![NewClientId] = "new" ]
            /\ client' = NewClientId
            /\ mxWriter' = t
            /\ Goto(t, "init_start")
            /\ UNCHANGED << mxReaders, calls, held, resp, initAttempts >>
  /\ UNCHANGED << cfgVars, initialized, session, allTools, tools, sessions, op, nEvents,
                  nCalls, env, cluster, inv, view >>

\* Init returning on a failed Start without releasing the lock.
InitStartKeepsLock(t) ==
  /\ pc[t] = "init_start"
  /\ \E ok \in BOOLEAN :
       /\ clients' = [ clients EXCEPT ![client] = IF ok THEN "started" ELSE "failed" ]
       /\ initialized' = InitializedAfterStart(ok)
       /\ AfterInit(t, IF ok THEN "nil" ELSE "copilot init failed")
       /\ mxWriter' = IF ok THEN 0 ELSE t
  /\ UNCHANGED << cfgVars, client, session, allTools, tools, mxReaders, sessions, op,
                  nEvents, extVars, nCalls >>

\* client.Start returns, with or without an error; Init releases the lock.
InitStart(t) ==
  /\ pc[t] = "init_start"
  /\ \E ok \in BOOLEAN :
       /\ clients' = [ clients EXCEPT ![client] = IF ok THEN "started" ELSE "failed" ]
       /\ initialized' = InitializedAfterStart(ok)
       /\ AfterInit(t, IF ok THEN "nil" ELSE "copilot init failed")
  /\ mxWriter' = 0
  /\ UNCHANGED << cfgVars, client, session, allTools, tools, mxReaders, sessions, op,
                  nEvents, extVars, nCalls >>

\* ------------------------------------------------------------------ Stop

\* Stop with the two teardowns in the other order.
StopClientFirst(t) ==
  \/ /\ Enter(t, "Stop")
     /\ CanLock
     /\ mxWriter' = t
     /\ clients' = IF client = 0 THEN clients ELSE [ clients EXCEPT ![client] = "stopped" ]
     /\ client' = 0
     /\ Goto(t, "stop_client")
     /\ UNCHANGED << cfgVars, initialized, session, allTools, tools, mxReaders, sessions,
                     calls, held, resp, initAttempts, nEvents, extVars >>
  \/ /\ pc[t] = "stop_client"
     /\ sessions' = Destroyed(sessions, session, "Stop")
     /\ session' = 0
     /\ initialized' = FALSE
     /\ mxWriter' = 0
     /\ Return(t, "nil")
     /\ UNCHANGED << cfgVars, client, allTools, tools, mxReaders, clients, op, nEvents, extVars,
                     nCalls >>

\* Stop leaving the client marked initialized.
StopStaysInitialized(t) ==
  \/ /\ Enter(t, "Stop")
     /\ CanLock
     /\ mxWriter' = t
     /\ sessions' = Destroyed(sessions, session, "Stop")
     /\ session' = 0
     /\ Goto(t, "stop_client")
     /\ UNCHANGED << cfgVars, initialized, client, allTools, tools, mxReaders, clients,
                     calls, held, resp, initAttempts, nEvents, extVars >>
  \/ /\ pc[t] = "stop_client"
     /\ clients' = IF client = 0 THEN clients ELSE [ clients EXCEPT ![client] = "stopped" ]
     /\ client' = 0
     /\ mxWriter' = 0
     /\ Return(t, "nil")
     /\ UNCHANGED << cfgVars, initialized, session, allTools, tools, mxReaders, sessions, op,
                     nEvents, extVars, nCalls >>

\* Stop stopping the runtime client and leaving the cached session alone.
StopKeepsSession(t) ==
  \/ /\ Enter(t, "Stop")
     /\ CanLock
     /\ mxWriter' = t
     /\ Goto(t, "stop_client")
     /\ UNCHANGED << cfgVars, initialized, client, session, sessions, allTools, tools,
                     mxReaders, clients, calls, held, resp, initAttempts, nEvents, extVars >>
  \/ /\ pc[t] = "stop_client"
     /\ clients' = IF client = 0 THEN clients ELSE [ clients EXCEPT ![client] = "stopped" ]
     /\ client' = 0
     /\ initialized' = FALSE
     /\ mxWriter' = 0
     /\ Return(t, "nil")
     /\ UNCHANGED << cfgVars, session, allTools, tools, mxReaders, sessions, op, nEvents, extVars,
                     nCalls >>

\* Stop, under the lock: the session is destroyed, then the runtime client is
\* stopped.
Stop(t) ==
  \/ /\ Enter(t, "Stop")
     /\ CanLock
     /\ mxWriter' = t
     /\ sessions' = Destroyed(sessions, session, "Stop")
     /\ session' = 0
     /\ Goto(t, "stop_client")
     /\ UNCHANGED << cfgVars, initialized, client, allTools, tools, mxReaders, clients,
                     calls, held, resp, initAttempts, nEvents, extVars >>
  \/ /\ pc[t] = "stop_client"
     /\ clients' = IF client = 0 THEN clients ELSE [ clients EXCEPT ![client] = "stopped" ]
     /\ client' = 0
     /\ initialized' = FALSE
     /\ mxWriter' = 0
     /\ Return(t, "nil")
     /\ UNCHANGED << cfgVars, session, allTools, tools, mxReaders, sessions, op, nEvents, extVars,
                     nCalls >>

\* --------------------------------------------------------- EnsureSession

\* EnsureSession returns session s, or err, to its caller: Send keeps the
\* session and goes on to the turn, or returns the error as it is.
AfterEnsure(t, s, err) ==
  IF op[t] = "Send" /\ err = "nil"
    THEN /\ Goto(t, "resp_start")
         /\ held' = [ held EXCEPT ![t] = s ]
         /\ UNCHANGED << calls, resp, initAttempts >>
    ELSE Return(t, err)

\* EnsureSession without its test of the cached session.
SessionCachedIgnored == FALSE

\* EnsureSession's test of the cached session.
SessionCached == session # 0

\* The configuration createSession builds for the new session.
createSession ==
  [ status |-> "live", model |-> cfgModel, skill |-> cfgSkill,
    systemMsg |-> SystemMessage(cfgSkill), tools |-> tools, client |-> client,
    subs |-> {}, destroyedBy |-> "", streaming |-> cfg.Streaming,
    reasoningEffort |-> cfg.ReasoningEffort, provider |-> SessionProvider ]

CallEnsureSession(t) ==
  /\ Enter(t, "EnsureSession")
  /\ Goto(t, "ensure_lock")
  /\ UNCHANGED << cfgVars, orchVars, lockVars, rtVars, calls, held, resp, initAttempts,
                  nEvents, extVars >>

\* EnsureSession takes the lock and returns the cached session; without one,
\* createSession refuses on a client that is not initialized, and else calls
\* the runtime's CreateSession, the lock still held.
EnsureLock(t) ==
  /\ pc[t] = "ensure_lock"
  /\ CanLock
  /\ IF SessionCached
       THEN /\ AfterEnsure(t, session, "nil")
            /\ UNCHANGED lockVars
       ELSE IF ~initialized \/ client = 0
         THEN /\ AfterEnsure(t, 0, "AI client not initialized")
              /\ UNCHANGED lockVars
         ELSE /\ mxWriter' = t
              /\ Goto(t, "ensure_create")
              /\ UNCHANGED << mxReaders, calls, held, resp, initAttempts >>
  /\ UNCHANGED << cfgVars, orchVars, rtVars, op, nEvents, extVars, nCalls >>

\* EnsureSession taking a failed creation for a dead runtime.
EnsureCreateGivesUp(t) ==
  /\ pc[t] = "ensure_create"
  /\ \/ /\ sessions' = [ sessions EXCEPT ![NewSessionId] = createSession ]
        /\ session' = NewSessionId
        /\ AfterEnsure(t, NewSessionId, "nil")
        /\ UNCHANGED initialized
     \/ /\ AfterEnsure(t, 0, "failed to create AI session")
        /\ initialized' = FALSE
        /\ UNCHANGED << session, sessions >>
  /\ mxWriter' = 0
  /\ UNCHANGED << cfgVars, client, allTools, tools, mxReaders, clients, op, nEvents, extVars,
                  nCalls >>

\* CreateSession returns: a new session, which EnsureSession caches, or an error.
EnsureCreate(t) ==
  /\ pc[t] = "ensure_create"
  /\ \/ /\ sessions' = [ sessions EXCEPT ![NewSessionId] = createSession ]
        /\ session' = NewSessionId
        /\ AfterEnsure(t, NewSessionId, "nil")
     \/ /\ AfterEnsure(t, 0, "failed to create AI session")
        /\ UNCHANGED << session, sessions >>
  /\ mxWriter' = 0
  /\ UNCHANGED << cfgVars, initialized, client, allTools, tools, mxReaders, clients, op,
                  nEvents, extVars, nCalls >>

\* ------------------------------------------------------------ ListModels

CallListModels(t) ==
  /\ Enter(t, "ListModels")
  /\ CanRLock
  /\ IF initialized
       THEN Goto(t, "lm_rlock") /\ UNCHANGED << calls, held, resp, initAttempts >>
       ELSE GotoInit(t)
  /\ UNCHANGED << cfgVars, orchVars, lockVars, rtVars, nEvents, extVars >>

\* ListModels querying whatever runtime handle it finds.
ListModelsUnchecked(t) ==
  \/ /\ pc[t] = "lm_rlock"
     /\ CanRLock
     /\ mxReaders' = mxReaders \cup { t }
     /\ Goto(t, "lm_query")
     /\ UNCHANGED << calls, held, resp, initAttempts >>
     /\ UNCHANGED << cfgVars, orchVars, mxWriter, rtVars, op, nEvents, extVars, nCalls >>
  \/ /\ pc[t] = "lm_query"
     /\ \E ok \in BOOLEAN : Return(t, IF ok THEN "models" ELSE "failed to list models")
     /\ mxReaders' = mxReaders \ { t }
     /\ UNCHANGED << cfgVars, orchVars, mxWriter, rtVars, op, nEvents, extVars, nCalls >>

\* ListModels takes the lock shared and queries the runtime with it held.
ListModels(t) ==
  \/ /\ pc[t] = "lm_rlock"
     /\ CanRLock
     /\ IF ~initialized \/ client = 0
          THEN /\ Return(t, "AI client not initialized")
               /\ UNCHANGED mxReaders
          ELSE /\ mxReaders' = mxReaders \cup { t }
               /\ Goto(t, "lm_query")
               /\ UNCHANGED << calls, held, resp, initAttempts >>
     /\ UNCHANGED << cfgVars, orchVars, mxWriter, rtVars, op, nEvents, extVars, nCalls >>
  \/ /\ pc[t] = "lm_query"
     /\ \E ok \in BOOLEAN : Return(t, IF ok THEN "models" ELSE "failed to list models")
     /\ mxReaders' = mxReaders \ { t }
     /\ UNCHANGED << cfgVars, orchVars, mxWriter, rtVars, op, nEvents, extVars, nCalls >>

\* ------------------------------------------------------------------ Send

Call(cb, arg, turn) == [ cb |-> cb, arg |-> arg, turn |-> turn ]

\* The session events of the runtime.  payload is the field the handler reads
\* (DeltaContent, Content, ToolName, Message), "absent" when the pointer is nil.
EventTypes ==
  { "assistant.message_delta", "assistant.streaming_delta", "assistant.reasoning_delta",
    "assistant.reasoning", "tool.execution_start", "tool.execution_complete",
    "session.error", "session.idle" }

\* The events the runtime emits in Spec.
SpecEvents ==
  { [ type |-> "assistant.message_delta", payload |-> "chunk" ],
    [ type |-> "tool.execution_start", payload |-> "absent" ] }

\* The handler relaying an event whatever its payload.
RelayUnchecked(e, turn) ==
  CASE e.type \in { "assistant.message_delta", "assistant.streaming_delta" } ->
         << Call("ResponseDelta", e.payload, turn) >>
    [] e.type = "assistant.reasoning_delta" ->
         << Call("ReasoningDelta", e.payload, turn) >>
    [] e.type = "assistant.reasoning" ->
         << Call("ReasoningComplete", e.payload, turn) >>
    [] e.type = "tool.execution_start" -> << Call("ToolStart", e.payload, turn) >>
    [] e.type = "tool.execution_complete" -> << Call("ToolComplete", e.payload, turn) >>
    [] OTHER -> << >>

\* The handler Send subscribes: the listener callbacks one event of turn `turn`
\* is relayed as.
Relay(e, turn) ==
  IF e.payload = "absent" THEN << >>
  ELSE CASE e.type \in { "assistant.message_delta", "assistant.streaming_delta" } ->
              << Call("ResponseDelta", e.payload, turn) >>
         [] e.type = "assistant.reasoning_delta" ->
              << Call("ReasoningDelta", e.payload, turn) >>
         [] e.type = "assistant.reasoning" ->
              << Call("ReasoningComplete", e.payload, turn) >>
         [] e.type = "tool.execution_start" -> << Call("ToolStart", e.payload, turn) >>
         [] e.type = "tool.execution_complete" -> << Call("ToolComplete", e.payload, turn) >>
         [] OTHER -> << >>

\* What SendAndWait can return on session s: an error (the transport's, or the
\* deadline's), no response, or a response with content.  A destroyed session
\* completes no turn.
SendAndWaitOutcomes(s) ==
  IF sessions[s].status = "live" THEN { "error", "nil", "Final answer" } ELSE { "error" }

\* Send passing no text on.
ContentDropped(r) == ""

\* The text Send passes to AIResponseComplete.
Content(r) == IF r \in { "nil", "nocontent" } THEN "" ELSE r

\* Send without its guard.
SendRefusedNever == FALSE

\* Send's guard: a disabled client is refused.
SendRefused == ~IsEnabled

\* Send's test before the lazy Init.
SendNeedsInit == ~initialized

\* Send reporting completion whatever SendAndWait returned.
SendNotificationAlwaysComplete(t, r) == Call("ResponseComplete", "", t)

\* The callback Send makes once SendAndWait has returned r.
SendNotification(t, r) ==
  IF r = "error" THEN Call("ResponseFailed", "AI request failed", t)
  ELSE Call("ResponseComplete", Content(r), t)

\* Unsubscribe called on the success path only, not deferred.
UnsubscribedOnSuccess(subs, t, r) == IF r = "error" THEN subs ELSE subs \ { t }

\* The handlers left on the session when Send has returned r: unsubscribe is
\* deferred, it runs on every path.
Unsubscribed(subs, t, r) == subs \ { t }

\* Send reads the enabled flag and then initialized, each under the shared
\* lock; the flag never changes, so the two reads are one step.
SendEntry(t) ==
  /\ CanRLock
  /\ IF SendRefused THEN Return(t, "AI features are disabled")
     ELSE IF SendNeedsInit THEN GotoInit(t)
     ELSE Goto(t, "ensure_lock") /\ UNCHANGED << calls, held, resp, initAttempts >>

CallSend(t) ==
  /\ Enter(t, "Send")
  /\ SendEntry(t)
  /\ UNCHANGED << cfgVars, orchVars, lockVars, rtVars, nEvents, extVars >>

\* Send calls AIResponseStart and subscribes its handler on the session.
SendSubscribe(t) ==
  /\ pc[t] = "resp_start"
  /\ calls' = [ calls EXCEPT ![t] = Append(@, Call("ResponseStart", "", t)) ]
  /\ sessions' = [ sessions EXCEPT ![held[t]].subs = @ \cup { t } ]
  /\ Goto(t, "wait")
  /\ UNCHANGED << cfgVars, orchVars, lockVars, clients, op, held, resp, initAttempts,
                  nEvents, extVars, nCalls >>

\* While the turn of thread t is in flight its session emits an event, which
\* every handler subscribed on the session relays to its own listener.
Emit(t, e) ==
  /\ pc[t] = "wait"
  /\ sessions[held[t]].status = "live"
  /\ calls' = [ u \in Threads |->
                  IF u \in sessions[held[t]].subs THEN calls[u] \o Relay(e, t)
                  ELSE calls[u] ]
  /\ UNCHANGED << cfgVars, orchVars, lockVars, rtVars, op, pc, result, held, resp,
                  initAttempts, nCalls, extVars >>

SessionEvent(t, e) ==
  /\ nEvents < MaxEvents
  /\ nEvents' = nEvents + 1
  /\ Emit(t, e)

\* SendAndWait returns.
SendAndWait(t) ==
  /\ pc[t] = "wait"
  /\ \E r \in SendAndWaitOutcomes(held[t]) : resp' = [ resp EXCEPT ![t] = r ]
  /\ Goto(t, "notify")
  /\ UNCHANGED << cfgVars, orchVars, lockVars, rtVars, op, calls, held, initAttempts,
                  nEvents, extVars, nCalls >>

\* Send tells the listener how the turn ended.
SendNotify(t) ==
  /\ pc[t] = "notify"
  /\ calls' = [ calls EXCEPT ![t] = Append(@, SendNotification(t, resp[t])) ]
  /\ Goto(t, "unsubscribe")
  /\ UNCHANGED << cfgVars, orchVars, lockVars, rtVars, op, held, resp, initAttempts,
                  nEvents, extVars, nCalls >>

\* Send returns: the deferred unsubscribe runs.
SendReturn(t) ==
  /\ pc[t] = "unsubscribe"
  /\ sessions' = [ sessions EXCEPT ![held[t]].subs = Unsubscribed(@, t, resp[t]) ]
  /\ Return(t, IF resp[t] = "error" THEN "sendandwait error" ELSE "nil")
  /\ UNCHANGED << cfgVars, orchVars, lockVars, clients, op, nEvents, extVars, nCalls >>

\* ---------------------------------------------------------- specification

Next ==
  \/ \E ts \in ToolLists : SetTools(ts)
  \/ \E name \in SkillNames : SetSkill(name)
  \/ \E model \in Models : SetModel(model)
  \/ ResetSession
  \/ \E t \in Threads :
       \/ CallInit(t)
       \/ InitLock(t)
       \/ InitStart(t)
       \/ Stop(t)
       \/ CallEnsureSession(t)
       \/ EnsureLock(t)
       \/ EnsureCreate(t)
       \/ CallListModels(t)
       \/ ListModels(t)
       \/ CallSend(t)
       \/ SendSubscribe(t)
       \/ \E e \in SpecEvents : SessionEvent(t, e)
       \/ SendAndWait(t)
       \/ SendNotify(t)
       \/ SendReturn(t)

Spec == InitState /\ [][Next]_vars

\* ------------------------------------------------- the registry alone

\* The names of the tools in the lists below: one that security allows, one
\* that it does not, one that no skill names.
ToolNamesIn == { "check_rbac", "get_logs", "custom_tool" }

SeqsUpTo(S, n) == UNION { [ 1..k -> S ] : k \in 0..n }

\* The tool lists SetTools is given: every short list, repeated tools
\* included, and the built-in eight with and without another tool.
ToolInputs == SeqsUpTo(ToolNamesIn, MaxLen) \cup ToolLists \cup { EightTools }

\* The skill names SetSkill is given: the registered ones, the empty name,
\* and names the registry does not have (its lookup is exact).
SkillInputs == DOMAIN skills \cup { "", "nosuch", "Security" }

FilterNext ==
  \/ \E ts \in ToolInputs : SetTools(ts)
  \/ \E name \in SkillInputs : SetSkill(name)

\* The orchestrator's two calls of FilterTools, on every list and name above.
FilterSpec == InitState /\ [][FilterNext]_vars

\* ------------------------------------------ configuration and credentials

\* The providers of the configuration file: none, or one of type openai with
\* or without an endpoint, credentials, a wire protocol and Azure options.
ProviderInputs ==
  { Nil } \cup
  { Ref([ Type |-> "openai", BaseURL |-> u, APIKey |-> k, BearerToken |-> b,
          WireAPI |-> w, Azure |-> a ]) :
      u \in { "", "https://llm.example/v1" }, k \in { "", "sk-config" },
      b \in { "", "bearer-config" }, w \in { "", "responses" },
      a \in { Nil, Ref([ APIVersion |-> "" ]), Ref([ APIVersion |-> "2024-10-21" ]) } }

\* The environments: each credential variable unset or set.
EnvInputs ==
  { [ n \in EnvNames |->
        CASE n = "K9S_AI_API_KEY" -> k
          [] n = "K9S_AI_BEARER_TOKEN" -> b
          [] n = "K9S_AI_GITHUB_TOKEN" -> g
          [] OTHER -> "" ] :
      k \in { "", "sk-env" }, b \in { "", "bearer-env" }, g \in { "", "ghp-env" } }

\* An enabled orchestrator made with any of the configurations, in any of the
\* environments.
ConfigInit ==
  /\ enabled = TRUE
  /\ cfgModel = DefaultModel
  /\ cfgSkill = ""
  /\ cfg \in { [ NewAI EXCEPT !.Provider = p, !.GitHubToken = g, !.ReasoningEffort = r ] :
                 p \in ProviderInputs, g \in { "", "ghp-config" }, r \in { "", "high" } }
  /\ env \in EnvInputs
  /\ host = HostWithCopilot
  /\ cluster = EmptyCluster
  /\ view = NoView
  /\ OrchInit

\* One caller initializes the client and creates sessions.
ConfigNext ==
  \/ CallInit(1)
  \/ InitLock(1)
  \/ InitStart(1)
  \/ CallEnsureSession(1)
  \/ EnsureLock(1)
  \/ EnsureCreate(1)

ConfigSpec == ConfigInit /\ [][ConfigNext]_vars

\* ---------------------------------------------------- runtime resolution

\* The machines: a supported and an unsupported platform, the override file,
\* copilot on the search path, a usable cache directory and a cached binary
\* each there or not.
HostInputs ==
  { [ HostWithCopilot EXCEPT !.platform = p, !.overrideFile = o, !.onPath = l,
                             !.cacheDir = d, !.cacheFile = f ] :
      p \in { "linux/amd64", "freebsd/amd64" }, o \in BOOLEAN, l \in BOOLEAN,
      d \in BOOLEAN, f \in { "absent", "binary" } }

ResolveInit ==
  /\ enabled = TRUE
  /\ cfgModel = DefaultModel
  /\ cfgSkill = ""
  /\ cfg = NewAI
  /\ env \in { [ n \in EnvNames |-> IF n = "COPILOT_CLI_PATH" THEN p ELSE "" ] :
                 p \in { "", "/opt/copilot" } }
  /\ host \in HostInputs
  /\ cluster = EmptyCluster
  /\ view = NoView
  /\ OrchInit

\* One caller initializes the client, again after each failed Start.
ResolveNext ==
  \/ CallInit(1)
  \/ InitLock(1)
  \/ InitStart(1)

ResolveSpec == ResolveInit /\ [][ResolveNext]_vars

\* ---------------------------------------------------------- validation

\* The whole config.AI value: the three fields with a variable of their own and
\* the rest.
AIConfig == [ Enabled |-> enabled, Model |-> cfgModel, ActiveSkill |-> cfgSkill ] @@ cfg

ReasoningEfforts == { "", "low", "medium", "high", "xhigh" }

\* Validate keeping a max-context-lines of zero.
ValidateKeepsZero(a) ==
  [ a EXCEPT !.Model = IF @ = "" THEN DefaultModel ELSE @,
             !.MaxContextLines = IF @ < 0 THEN DefaultMaxContextLines ELSE @,
             !.ReasoningEffort = IF @ \in ReasoningEfforts THEN @ ELSE "" ]

Validate(a) ==
  [ a EXCEPT !.Model = IF @ = "" THEN DefaultModel ELSE @,
             !.MaxContextLines = IF @ <= 0 THEN DefaultMaxContextLines ELSE @,
             !.ReasoningEffort = IF @ \in ReasoningEfforts THEN @ ELSE "" ]

\* The configurations a file can hold.
ValidateInputs ==
  { [ NewAI EXCEPT !.MaxContextLines = n, !.ReasoningEffort = r, !.Streaming = st,
                   !.GitHubToken = g ] :
      n \in { -1, 0, 1, DefaultMaxContextLines, DefaultMaxContextLines + 1 },
      r \in ReasoningEfforts \cup { "max", "High" },
      st \in BOOLEAN, g \in { "", "ghp-config" } }

ValidateInit ==
  /\ enabled \in BOOLEAN
  /\ cfgModel \in { "", "gpt-4o" }
  /\ cfgSkill \in { "", "security" }
  /\ cfg \in ValidateInputs
  /\ env = [ n \in EnvNames |-> "" ]
  /\ host = HostWithCopilot
  /\ cluster = EmptyCluster
  /\ view = NoView
  /\ OrchInit

\* The configuration is replaced by its validated copy.
Validated ==
  /\ Counted
  /\ LET a == Validate(AIConfig)
     IN  /\ enabled' = a.Enabled
         /\ cfgModel' = a.Model
         /\ cfgSkill' = a.ActiveSkill
         /\ cfg' = [ f \in DOMAIN cfg |-> a[f] ]
  /\ UNCHANGED << orchVars, lockVars, rtVars, thrVars, nEvents, extVars >>

ValidateSpec == ValidateInit /\ [][Validated]_vars

\* ---------------------------------------------------------- the tools alone
\*
\* The tool handlers read the cluster and touch nothing of the orchestrator,
\* so they are checked on their own, over clusters that hold resources only,
\* events only, or one pod's log only.

MaxObjs == 5
MaxEvts == 3

\* Lists of up to MaxObjs objects, each an Unstructured or not, and one list
\* longer than the default limit.
ObjInputs ==
  { [ i \in 1..n |-> [ name |-> i, unstructured |-> f[i] ] ] :
      n \in 0..MaxObjs, f \in [ 1..MaxObjs -> BOOLEAN ] }
  \cup { [ i \in 1..(DefaultListLimit + 1) |-> [ name |-> i, unstructured |-> TRUE ] ] }

\* Lists of up to MaxEvts events of either type about either of two objects,
\* and one list longer than the default limit.
EventInputs ==
  { [ i \in 1..n |-> [ id |-> i, type |-> ty[i], object |-> ob[i] ] ] :
      n \in 0..MaxEvts, ty \in [ 1..MaxEvts -> { "Normal", "Warning" } ],
      ob \in [ 1..MaxEvts -> { "web", "db" } ] }
  \cup { [ i \in 1..(DefaultEventLimit + 1) |->
            [ id |-> i, type |-> IF i % 3 = 0 THEN "Warning" ELSE "Normal", object |-> "web" ] ] }

\* Logs shorter and longer than the default tail, of lines that fill the
\* byte ceiling and of lines that do not.
LogInputs ==
  [ lines : { 0, 1, DefaultTailLines, DefaultTailLines + 1, 5000 },
    lineBytes : { 0, 1, 100, 3000 } ]

ToolInit ==
  /\ enabled = TRUE
  /\ cfgModel = DefaultModel
  /\ cfgSkill = ""
  /\ cfg = NewAI
  /\ env = [ n \in EnvNames |-> "" ]
  /\ host = HostWithCopilot
  /\ \/ \E objs \in ObjInputs : cluster = [ EmptyCluster EXCEPT !.objs = objs ]
     \/ \E evs \in EventInputs : cluster = [ EmptyCluster EXCEPT !.events = evs ]
     \/ \E log \in LogInputs : cluster = [ EmptyCluster EXCEPT !.log = log ]
  /\ view = NoView
  /\ OrchInit

Invoked(tool, params, err, res) ==
  /\ inv' = [ tool |-> tool, params |-> params, err |-> err, result |-> res ]
  /\ UNCHANGED << cfgVars, orchVars, lockVars, rtVars, thrVars, nEvents, nCalls, env,
                  host, opts, cluster, view >>

listResourcesTool ==
  \E limit \in { -1, 0, 1, 2, MaxObjs, MaxObjs + 1 }, listErr \in BOOLEAN :
    LET params == [ Limit |-> limit ]
    IN  IF listErr
          THEN Invoked("list_resources", params, "failed to list", << >>)
          ELSE Invoked("list_resources", params, "", listResources(cluster.objs, params))

getLogsTool ==
  \E tailLines \in { -1, 0, 1, DefaultTailLines, 5000 },
     fails \in { "", "dial", "stream", "read" } :
    LET params == [ TailLines |-> tailLines ]
    IN  CASE fails = "dial" ->
               Invoked("get_logs", params, "failed to connect to cluster", << >>)
          [] fails = "stream" ->
               Invoked("get_logs", params, "failed to stream logs", << >>)
          [] fails = "read" ->
               Invoked("get_logs", params, "failed to read logs", << >>)
          [] OTHER ->
               Invoked("get_logs", params, "", getLogs(cluster.log, params))

getEventsTool ==
  \E limit \in { -1, 0, 1, 2, MaxEvts }, eventType \in { "", "Normal", "Warning" },
     resourceName \in { "", "web" }, fails \in { "", "dial", "list" } :
    LET params == [ Limit |-> limit, EventType |-> eventType, ResourceName |-> resourceName ]
    IN  CASE fails = "dial" ->
               Invoked("get_events", params, "failed to connect to cluster", << >>)
          [] fails = "list" ->
               Invoked("get_events", params, "failed to list events", << >>)
          [] OTHER ->
               Invoked("get_events", params, "", getEvents(cluster.events, params))

ToolNext == listResourcesTool \/ getLogsTool \/ getEventsTool

ToolSpec == ToolInit /\ [][ToolNext]_vars

\* ------------------------------------------------------- one turn's events
\*
\* One Send, alone, whose turn emits events of every type, with and without
\* their payload.

MaxTurnEvents == 2

AllEvents == [ type : EventTypes, payload : { "absent", "text" } ]

TurnEvent(t, e) ==
  /\ nEvents < MaxTurnEvents
  /\ nEvents' = nEvents + 1
  /\ Emit(t, e)

EventNext ==
  \/ CallSend(1)
  \/ InitLock(1)
  \/ InitStart(1)
  \/ EnsureLock(1)
  \/ EnsureCreate(1)
  \/ SendSubscribe(1)
  \/ \E e \in AllEvents : TurnEvent(1, e)
  \/ SendAndWait(1)
  \/ SendNotify(1)
  \/ SendReturn(1)

EventSpec == InitState /\ [][EventNext]_vars

\* -------------------------------------------------------------- chat view
\*
\* The chat view gives Send a listener that collects the answer in a
\* strings.Builder, here the sequence of the texts written to it.

WriteString(b, str) == IF str = "" THEN b ELSE Append(b, str)

\* One callback on the listener of the chat view: a delta is written to
\* the builder, a completion with a text resets the builder and writes
\* the text, every other callback leaves the builder alone.
chatListener(b, c) ==
  CASE c.cb = "ResponseDelta" -> WriteString(b, c.arg)
    [] c.cb = "ResponseComplete" -> IF c.arg # "" THEN WriteString(<< >>, c.arg) ELSE b
    [] OTHER -> b

\* The builder after the callbacks cs, in the order they were made.
RECURSIVE streamedContent(_, _)
streamedContent(b, cs) ==
  IF cs = << >> THEN b ELSE streamedContent(chatListener(b, Head(cs)), Tail(cs))

\* The same in the first chat view, whose completion resets the builder
\* whatever the text.
chatListenerFirst(b, c) ==
  CASE c.cb = "ResponseDelta" -> WriteString(b, c.arg)
    [] c.cb = "ResponseComplete" -> WriteString(<< >>, c.arg)
    [] OTHER -> b

RECURSIVE response(_, _)
response(b, cs) ==
  IF cs = << >> THEN b ELSE response(chatListenerFirst(b, Head(cs)), Tail(cs))

\* A goroutine runs sendMessage: it returns at once when the view's flag is
\* set, and sets the flag otherwise.
sendMessage(t) ==
  /\ pc[t] = "idle"
  /\ t \notin view.running
  /\ \A u \in Threads : u < t => (pc[u] # "idle" \/ u \in view.running)
  /\ Counted
  /\ IF view.streaming
       THEN UNCHANGED << view, op, pc, result >>
       ELSE /\ view' = [ view EXCEPT !.streaming = TRUE, !.running = @ \cup { t } ]
            /\ op' = [ op EXCEPT ![t] = "sendMessage" ]
            /\ Goto(t, "sm_send")
  /\ UNCHANGED << cfgVars, orchVars, lockVars, rtVars, calls, held, resp, initAttempts,
                  nEvents, env, host, opts, cluster, inv >>

\* sendMessage, the flag set, gives up when there is no client and calls Send
\* otherwise.  The first version also gives up when the client is disabled,
\* which is what Send itself does first.
sendMessageSend(t) ==
  /\ pc[t] = "sm_send"
  /\ IF ~view.client
       THEN Return(t, "AI client not available") /\ UNCHANGED op
       ELSE op' = [ op EXCEPT ![t] = "Send" ] /\ SendEntry(t)
  /\ UNCHANGED << cfgVars, orchVars, lockVars, rtVars, nEvents, nCalls, extVars >>

\* sendMessage returns, from wherever it does: the deferred function clears
\* the flag.
sendMessageReturn(t) ==
  /\ pc[t] = "idle"
  /\ t \in view.running
  /\ view' = [ view EXCEPT !.streaming = FALSE, !.running = @ \ { t } ]
  /\ UNCHANGED << cfgVars, orchVars, lockVars, rtVars, thrVars, nEvents, nCalls, env,
                  host, opts, cluster, inv >>

ChatInit ==
  /\ enabled \in BOOLEAN
  /\ cfgModel = DefaultModel
  /\ cfgSkill = ""
  /\ cfg = NewAI
  /\ env = [ n \in EnvNames |-> "" ]
  /\ host = HostWithCopilot
  /\ cluster = EmptyCluster
  /\ \E c \in BOOLEAN : view = [ NoView EXCEPT !.client = c ]
  /\ OrchInit

\* The goroutines of one chat view, each message typed starting one.
ChatNext ==
  \E t \in Threads :
    \/ sendMessage(t)
    \/ sendMessageSend(t)
    \/ InitLock(t)
    \/ InitStart(t)
    \/ EnsureLock(t)
    \/ EnsureCreate(t)
    \/ SendSubscribe(t)
    \/ \E e \in SpecEvents : SessionEvent(t, e)
    \/ SendAndWait(t)
    \/ SendNotify(t)
    \/ SendReturn(t)
    \/ sendMessageReturn(t)

\* The view's goroutines are scheduled like every other: what Progress grants
\* the calls of the orchestrator, and the steps of sendMessage itself.
ChatSpec ==
  /\ ChatInit
  /\ [][ChatNext]_vars
  /\ \A t \in Threads :
       /\ WF_vars(sendMessageSend(t))
       /\ WF_vars(sendMessageReturn(t))
       /\ WF_vars(InitLock(t))
       /\ WF_vars(EnsureLock(t))
       /\ WF_vars(EnsureCreate(t))
       /\ WF_vars(SendSubscribe(t))
       /\ WF_vars(SendAndWait(t))
       /\ WF_vars(SendNotify(t))
       /\ WF_vars(SendReturn(t))

\* -------------------------------------------------------------- properties

\* The Response* callbacks among the callbacks a listener received, in order.
Lifecycle(cs) ==
  LET ls == SelectSeq(cs, LAMBDA c : c.cb \in { "ResponseStart", "ResponseComplete",
                                              "ResponseFailed" })
  IN  [ i \in 1..Len(ls) |-> ls[i].cb ]

\* Thread t takes the step that returns from Send.
SendReturns(t) == op[t] = "Send" /\ pc[t] # "idle" /\ pc'[t] = "idle"

\* C1: SetSkill and SetModel destroy the cached session and empty the cache;
\* the session EnsureSession creates afterwards is a new one, made with the
\* model, the skill, the skill's system message and the filtered tools that
\* are current then; so the cached session always has the active model and skill.
C1_SwitchResetsSession ==
  /\ [][ ( (\E name \in SkillNames : SetSkill(name)) \/ (\E model \in Models : SetModel(model)) )
         => ( /\ session' = 0
              /\ session # 0 => sessions'[session].status = "destroyed" ) ]_vars
  /\ [][ \A t \in Threads :
           (pc[t] = "ensure_create" /\ session' # 0)
           => ( /\ sessions[session'].status = "free"
                /\ sessions'[session'].status = "live"
                /\ sessions'[session'].model = cfgModel'
                /\ sessions'[session'].skill = cfgSkill'
                /\ sessions'[session'].systemMsg = SystemMessage(cfgSkill')
                /\ sessions'[session'].tools = FilterTools(cfgSkill', allTools') ) ]_vars
  /\ [](session # 0 => /\ sessions[session].status = "live"
                       /\ sessions[session].model = cfgModel
                       /\ sessions[session].skill = cfgSkill)

\* A session was destroyed by a switch and the session cached now was made
\* with another model or skill.
C1_Witness ==
  \E s \in SessionIds :
    /\ sessions[s].destroyedBy \in { "SetSkill", "SetModel" }
    /\ session # 0
    /\ sessions[session].status = "live"
    /\ << sessions[session].model, sessions[session].skill >>
         # << sessions[s].model, sessions[s].skill >>

\* C2: at most one session is live (created and not destroyed), it is the
\* cached one, and at most one caller is creating a session at a time.
C2_OneLiveSession ==
  /\ \A s \in SessionIds : sessions[s].status = "live" => session = s
  /\ Cardinality({ s \in SessionIds : sessions[s].status = "live" }) <= 1
  /\ Cardinality({ t \in Threads : pc[t] = "ensure_create" }) <= 1
  /\ \A t \in Threads : pc[t] = "ensure_create" => session = 0

\* A caller that found no session is creating one while another caller is
\* about to look for one.
C2_Witness ==
  \E t, u \in Threads :
    /\ pc[t] = "ensure_create"
    /\ pc[u] = "ensure_lock"
    /\ op[t] = "Send"
    /\ op[u] = "Send"

\* C3: a Send whose SendAndWait failed has made, of the Response* callbacks,
\* ResponseStart and then ResponseFailed and no other, and returns an error.
C3_FailedTurn ==
  [][ \A t \in Threads :
        (SendReturns(t) /\ resp[t] = "error")
        => ( /\ Lifecycle(calls[t]) = << "ResponseStart", "ResponseFailed" >>
             /\ result'[t] \notin { "nil", "none" } ) ]_vars

\* A failed turn about to return, a delta relayed before the failure.
C3_Witness ==
  \E t \in Threads :
    /\ pc[t] = "unsubscribe"
    /\ resp[t] = "error"
    /\ Len(calls[t]) = 3
    /\ calls[t][2].cb = "ResponseDelta"

\* C4: a Send whose SendAndWait succeeded has made, of the Response*
\* callbacks, ResponseStart and then one ResponseComplete and no other; the
\* ResponseComplete carries the content the runtime returned (the empty text
\* when it returned none), and Send returns no error.
C4_CompletedTurn ==
  [][ \A t \in Threads :
        (SendReturns(t) /\ resp[t] \notin { "error", "none" })
        => ( /\ Lifecycle(calls[t]) = << "ResponseStart", "ResponseComplete" >>
             /\ \A i \in 1..Len(calls[t]) :
                  calls[t][i].cb = "ResponseComplete"
                  => calls[t][i].arg = (IF resp[t] = "nil" THEN "" ELSE resp[t])
             /\ result'[t] = "nil" ) ]_vars

\* A completed turn about to return, the runtime's content delivered.
C4_Witness ==
  \E t \in Threads :
    /\ pc[t] = "unsubscribe"
    /\ resp[t] = "Final answer"
    /\ calls[t][Len(calls[t])] = Call("ResponseComplete", "Final answer", t)

\* C5: Send on a disabled client is one step that returns the error: it does
\* not enter Init, makes no callback, and leaves the orchestrator, the
\* runtime and the lock as they were.
C5_DisabledSend ==
  [][ \A t \in Threads :
        (CallSend(t) /\ ~enabled)
        => ( /\ pc'[t] = "idle"
             /\ result'[t] = "AI features are disabled"
             /\ calls'[t] = << >>
             /\ initAttempts'[t] = 0
             /\ UNCHANGED << cfgVars, orchVars, rtVars, lockVars >> ) ]_vars

\* A Send on a disabled client has returned.
C5_Witness ==
  /\ ~enabled
  /\ \E t \in Threads : op[t] = "Send" /\ pc[t] = "idle"
                        /\ result[t] = "AI features are disabled"

\* C6: every Send on an enabled client that returns an error has made the
\* ResponseFailed callback before it returns.
C6_ErrorsReachListener ==
  [][ \A t \in Threads :
        (SendReturns(t) /\ enabled /\ result'[t] # "nil")
        => \E i \in 1..Len(calls[t]) : calls[t][i].cb = "ResponseFailed" ]_vars

\* C7: a handler on a session belongs to a Send that is inside its turn on
\* that session: a Send that has returned, with or without an error, has left
\* no subscription behind.
C7_NoSubscriptionLeft ==
  \A s \in SessionIds : \A t \in sessions[s].subs :
    /\ op[t] = "Send"
    /\ pc[t] \in { "wait", "notify", "unsubscribe" }
    /\ held[t] = s

\* A failed Send has returned and no session has a handler left.
C7_Witness ==
  /\ \E t \in Threads : op[t] = "Send" /\ pc[t] = "idle"
                        /\ result[t] = "sendandwait error"
  /\ \A s \in SessionIds : sessions[s].subs = {}

\* C8: an Init on a disabled or an initialized client changes nothing and
\* returns no error; so at most one runtime client is started and not
\* stopped, the one the orchestrator holds when it is initialized, and at
\* most one Init is starting a client at a time.
C8_InitIdempotent ==
  /\ [][ \A t \in Threads :
           (pc[t] = "init_lock" /\ pc'[t] # "init_lock" /\ (~enabled \/ initialized))
           => ( /\ UNCHANGED << cfgVars, orchVars, rtVars, lockVars >>
                /\ result'[t] \in { "nil", "none" }
                /\ pc'[t] # "init_start" ) ]_vars
  /\ [](Cardinality({ c \in ClientIds : clients[c] \in { "new", "started" } }) <= 1)
  /\ [](initialized => client # 0 /\ clients[client] = "started")
  /\ [](Cardinality({ t \in Threads : pc[t] = "init_start" }) <= 1)

\* Two concurrent Init calls have both returned no error, and one runtime
\* client was made.
C8_Witness ==
  /\ \A t \in Threads : op[t] = "Init" /\ pc[t] = "idle" /\ result[t] = "nil"
  /\ initialized
  /\ Cardinality({ c \in ClientIds : clients[c] # "none" }) = 1

\* C9: an Init whose Start fails returns the wrapped error and leaves
\* initialized false; a Send or ListModels on an enabled client that is not
\* initialized enters Init; no call enters Init more than once.
C9_InitFailureRetried ==
  /\ [][ \A t \in Threads :
           (pc[t] = "init_start" /\ pc'[t] # "init_start" /\ clients'[client] = "failed")
           => ( /\ ~initialized'
                /\ pc'[t] = "idle"
                /\ result'[t] = (IF op[t] = "Init" THEN "copilot init failed"
                                 ELSE "AI not ready: copilot init failed") ) ]_vars
  /\ [][ \A t \in Threads :
           ((CallSend(t) \/ CallListModels(t)) /\ enabled /\ ~initialized)
           => pc'[t] = "init_lock" ]_vars
  /\ [](\A t \in Threads : initAttempts[t] <= 1)

\* After a failed Start, a later Send is inside Init again, starting another
\* runtime client.
C9_Witness ==
  \E t \in Threads :
    /\ op[t] = "Send"
    /\ pc[t] = "init_start"
    /\ \E c \in ClientIds : clients[c] = "failed" /\ c # client

\* C10: when Stop returns, the session, the runtime handle and initialized
\* are cleared; a runtime client is stopped only when every session made on
\* it is destroyed; a Stop on a stopped orchestrator makes no call and
\* changes nothing.
C10_StopIdempotent ==
  /\ [][ \A t \in Threads :
           (pc[t] = "stop_client" /\ pc'[t] = "idle")
           => (session' = 0 /\ client' = 0 /\ ~initialized') ]_vars
  /\ [](\A s \in SessionIds :
          (sessions[s].status = "live" /\ sessions[s].client # 0)
          => clients[sessions[s].client] # "stopped")
  /\ [][ \A t \in Threads :
           (Stop(t) /\ session = 0 /\ client = 0 /\ ~initialized)
           => UNCHANGED << cfgVars, orchVars, rtVars >> ]_vars

\* A Stop is under way on an orchestrator that an earlier Stop tore down.
C10_Witness ==
  \E t \in Threads :
    /\ pc[t] = "stop_client"
    /\ client = 0
    /\ \E c \in ClientIds : clients[c] = "stopped"
    /\ \E s \in SessionIds : sessions[s].destroyedBy = "Stop"

\* Thread t is inside a call of the runtime that crosses the network:
\* client.Start, CreateSession, the runtime's ListModels, SendAndWait.
InRuntimeCall(t) == pc[t] \in { "init_start", "ensure_create", "lm_query", "wait" }

\* Thread t holds mx, exclusively or shared.
HoldsLock(t) == mxWriter = t \/ t \in mxReaders

\* C11: no thread holds the lock, exclusively or shared, while it is inside
\* the runtime's start, session creation, model listing or the wait of Send.
C11_NoLockAcrossRuntimeCall ==
  \A t \in Threads : InRuntimeCall(t) => ~HoldsLock(t)

\* Thread t is inside the turn of its Send, on the session it obtained.
InTurn(t) == op[t] = "Send" /\ pc[t] \in { "resp_start", "wait" }

\* C12: a SetSkill or SetModel made while a Send is inside its turn leaves the
\* session that Send is using as it was: not destroyed, not changed.
C12_SwitchSparesTurn ==
  [][ ( (\E name \in SkillNames : SetSkill(name)) \/ (\E model \in Models : SetModel(model)) )
      => \A t \in Threads :
           InTurn(t) => ( /\ sessions'[held[t]].status = sessions[held[t]].status
                          /\ sessions'[held[t]].model = sessions[held[t]].model
                          /\ sessions'[held[t]].skill = sessions[held[t]].skill ) ]_vars

\* Stop has torn down the session thread t obtained for its turn.
TornDown(t) == held[t] # 0 /\ sessions[held[t]].destroyedBy = "Stop"

\* C13: a Send whose session Stop has torn down does not report
\* ResponseComplete, the ResponseStart it reported is followed by
\* ResponseFailed, and it returns an error.
C13_StopFailsTurn ==
  [][ \A t \in Threads :
        /\ (pc[t] = "notify" /\ pc'[t] = "unsubscribe" /\ TornDown(t))
           => Lifecycle(calls'[t]) = << "ResponseStart", "ResponseFailed" >>
        /\ (SendReturns(t) /\ TornDown(t))
           => ( /\ result'[t] # "nil"
                /\ Lifecycle(calls[t]) = << "ResponseStart", "ResponseFailed" >> ) ]_vars

\* ------------------------------------------------------------- progress

\* What goes on once thread t is inside a call.  The scheduler runs every
\* goroutine that can run, a lock that stays free is acquired, and a call of
\* the runtime made under Send's five-minute context returns by the
\* deadline.  client.Start is not among them: Init passes it the context of
\* its caller, which Send has not yet given a deadline and which the chat
\* view makes with context.Background().
Progress(t) ==
  /\ WF_vars(InitLock(t))
  /\ WF_vars(pc[t] = "stop_client" /\ Stop(t))
  /\ WF_vars(EnsureLock(t))
  /\ WF_vars(EnsureCreate(t))
  /\ WF_vars(ListModels(t))
  /\ WF_vars(SendSubscribe(t))
  /\ WF_vars(SendAndWait(t))
  /\ WF_vars(SendNotify(t))
  /\ WF_vars(SendReturn(t))

LiveSpec == Spec /\ \A t \in Threads : Progress(t)

\* C14: every Send returns in the end, and every ResponseStart is followed by
\* a ResponseComplete or a ResponseFailed.
C14_SendTerminates ==
  \A t \in Threads :
    /\ (op[t] = "Send" /\ pc[t] # "idle") ~> (pc[t] = "idle")
    /\ (pc[t] = "wait") ~> (pc[t] = "unsubscribe"
                            /\ Lifecycle(calls[t]) \in { << "ResponseStart", "ResponseComplete" >>,
                                                        << "ResponseStart", "ResponseFailed" >> })

\* C15: a CreateSession that fails caches no session and leaves the model,
\* the skill, the tools, the runtime handle and initialized as they were; the
\* caller gets the error that names session creation; and an EnsureSession
\* that finds no session on an initialized client attempts creation, whatever
\* failed before.
C15_FailedCreationLeavesState ==
  /\ [][ \A t \in Threads :
           (pc[t] = "ensure_create" /\ pc'[t] # "ensure_create" /\ sessions' = sessions)
           => ( /\ session' = 0
                /\ UNCHANGED << cfgVars, initialized, client, allTools, tools, clients >>
                /\ pc'[t] = "idle"
                /\ result'[t] = "failed to create AI session" ) ]_vars
  /\ [][ \A t \in Threads :
           (pc[t] = "ensure_lock" /\ pc'[t] # "ensure_lock" /\ session = 0
              /\ initialized /\ client # 0)
           => pc'[t] = "ensure_create" ]_vars

\* A creation has failed, and a later EnsureSession is creating a session.
C15_Witness ==
  \E t, u \in Threads :
    /\ pc[t] = "idle"
    /\ result[t] = "failed to create AI session"
    /\ pc[u] = "ensure_create"
    /\ session = 0
    /\ initialized

\* The name is not one FilterTools filters by: it is empty or not registered.
Unfiltered(name) == name = "" \/ name \notin DOMAIN skills

\* C16: for the empty skill name and for every name that is not registered,
\* FilterTools returns the list it was given, the same tools in the same
\* order, and SystemMessageSuffix returns the empty text.
C16_FailOpen ==
  /\ Unfiltered(cfgSkill) => tools = allTools
  /\ \A name \in SkillInputs :
       Unfiltered(name) => ( /\ FilterTools(name, allTools) = allTools
                             /\ FilterTools(name, tools) = tools
                             /\ SystemMessageSuffix(name) = "" )

\* A skill that is not registered is active with a list of two tools, of
\* which security would keep one.
C16_Witness ==
  /\ cfgSkill = "nosuch"
  /\ allTools = << "get_logs", "check_rbac" >>
  /\ tools = allTools

\* The places of list `all` whose tool skill `name` allows.
Kept(name, all) == { i \in 1..Len(all) : all[i] \in Range(skills[name].ToolNames) }

\* C17: for a registered skill the filtered list holds the tools of the input
\* whose name the skill allows, each as often as the input has it and in the
\* input's order, and no other; filtering the result again gives the result;
\* and the input list is left as it was.
C17_FilterExact ==
  /\ [](cfgSkill \in DOMAIN skills
        => LET kept == Kept(cfgSkill, allTools)
           IN  /\ Len(tools) = Cardinality(kept)
               /\ \A i \in kept : tools[Cardinality({ j \in kept : j <= i })] = allTools[i]
               /\ Range(tools) \subseteq Range(skills[cfgSkill].ToolNames)
               /\ FilterTools(cfgSkill, tools) = tools)
  /\ [][ (\E name \in SkillInputs : SetSkill(name)) => allTools' = allTools ]_vars

\* security is active with a list that has an allowed tool twice, around a
\* tool that it drops.
C17_Witness ==
  /\ cfgSkill = "security"
  /\ allTools = << "check_rbac", "get_logs", "check_rbac" >>
  /\ tools = << "check_rbac", "check_rbac" >>

\* C18: with the eight built-in tools in the full list and security the
\* active skill, the filtered list holds check_rbac, get_resource,
\* describe_resource and list_resources and no other tool, whatever else the
\* full list holds and whichever of SetTools and SetSkill was called last.
C18_SecurityTools ==
  (cfgSkill = "security" /\ Range(EightTools) \subseteq Range(allTools))
  => Range(tools) = { "check_rbac", "get_resource", "describe_resource", "list_resources" }

\* security is active and the full list is the eight tools and one more.
C18_Witness ==
  /\ cfgSkill = "security"
  /\ allTools = EightTools \o << "custom_tool" >>
  /\ tools = << "get_resource", "list_resources", "describe_resource", "check_rbac" >>

\* C19: whatever calls were made, the filtered list is FilterTools of the
\* active skill and the full list, and the full list changes in SetTools
\* only, which sets it to its argument: a filter never writes it.
C19_FilteredFollowsFull ==
  /\ [](tools = FilterTools(cfgSkill, allTools))
  /\ [][ \/ allTools' = allTools
         \/ \E ts \in ToolLists : SetTools(ts) /\ allTools' = ts ]_vars

\* SetTools, SetSkill and Init have run: security filters a full list of nine.
C19_Witness ==
  /\ nCalls = 3
  /\ initialized
  /\ cfgSkill = "security"
  /\ Len(allTools) = 9
  /\ Len(tools) = 4

\* C20: ResetSession destroys the cached session and empties the cache, and
\* leaves the model, the skill, both tool lists, the runtime handle, the
\* runtime client and initialized as they were; with no session cached it
\* changes nothing.
C20_ResetSessionFrame ==
  [][ ResetSession
      => ( /\ session' = 0
           /\ UNCHANGED << cfgVars, initialized, client, allTools, tools, clients >>
           /\ \A s \in SessionIds :
                sessions'[s] = IF s = session
                                 THEN [ sessions[s] EXCEPT !.status = "destroyed",
                                                           !.destroyedBy = "ResetSession" ]
                                 ELSE sessions[s]
           /\ session = 0 => UNCHANGED << orchVars, rtVars >> ) ]_vars

\* ResetSession has destroyed a session of a client that is still initialized.
C20_Witness ==
  /\ \E s \in SessionIds : sessions[s].destroyedBy = "ResetSession"
  /\ session = 0
  /\ initialized
  /\ client # 0
  /\ clients[client] = "started"

\* C21: a session is created with a provider block exactly when the
\* configuration has a provider whose base URL is not empty; the block carries
\* that provider's type and base URL.
C21_ProviderBlock ==
  \A s \in SessionIds :
    sessions[s].status # "free"
    => ( /\ sessions[s].provider # Nil
            <=> (cfg.Provider # Nil /\ cfg.Provider[1].BaseURL # "")
         /\ sessions[s].provider # Nil
            => ( /\ sessions[s].provider[1].Type = cfg.Provider[1].Type
                 /\ sessions[s].provider[1].BaseURL = cfg.Provider[1].BaseURL ) )

\* A session was created without a provider block for a configuration whose
\* provider has credentials and no base URL.
C21_Witness ==
  /\ cfg.Provider # Nil
  /\ cfg.Provider[1].BaseURL = ""
  /\ cfg.Provider[1].APIKey # ""
  /\ session # 0
  /\ sessions[session].provider = Nil

\* The credential the documented precedence picks: the configured value, else
\* the named environment variable, else none.
Precedence(configured, named) == IF configured # "" THEN configured ELSE Getenv(named)

\* C22: the GitHub token Init passes to the runtime client, and the API key
\* and the bearer token of a session's provider block, are the configured
\* value when it is not empty, else the value of the named environment
\* variable, else nothing.
C22_CredentialPrecedence ==
  /\ client # 0 => opts.GitHubToken = Precedence(cfg.GitHubToken, "K9S_AI_GITHUB_TOKEN")
  /\ \A s \in SessionIds :
       sessions[s].provider # Nil
       => ( /\ sessions[s].provider[1].APIKey
                 = Precedence(cfg.Provider[1].APIKey, "K9S_AI_API_KEY")
            /\ sessions[s].provider[1].BearerToken
                 = Precedence(cfg.Provider[1].BearerToken, "K9S_AI_BEARER_TOKEN") )

\* C23: Validate turns a reasoning effort outside "", low, medium, high,
\* xhigh into the unset one, an empty model into the default model, and a
\* max-context-lines that is not positive into 500; it leaves every other
\* field as it was; and validating the result changes nothing.
C23_ValidateNormalizes ==
  [][ nCalls' # nCalls
      => ( /\ cfg'.ReasoningEffort
                = (IF cfg.ReasoningEffort \in { "", "low", "medium", "high", "xhigh" }
                     THEN cfg.ReasoningEffort ELSE "")
           /\ cfgModel' = (IF cfgModel = "" THEN "gpt-4.1" ELSE cfgModel)
           /\ cfg'.MaxContextLines
                = (IF cfg.MaxContextLines > 0 THEN cfg.MaxContextLines ELSE 500)
           /\ enabled' = enabled
           /\ cfgSkill' = cfgSkill
           /\ \A f \in DOMAIN cfg \ { "ReasoningEffort", "MaxContextLines" } : cfg'[f] = cfg[f]
           /\ DOMAIN cfg' = DOMAIN cfg
           /\ nCalls > 0 => UNCHANGED cfgVars ) ]_vars

\* A configuration with a skill, a token and streaming off has been validated
\* twice and holds the three defaults.
C23_Witness ==
  /\ nCalls = 2
  /\ cfgModel = DefaultModel
  /\ cfg.MaxContextLines = DefaultMaxContextLines
  /\ cfg.ReasoningEffort = ""
  /\ cfgSkill = "security"
  /\ cfg.GitHubToken # ""
  /\ ~cfg.Streaming

\* Thread t takes the step of Init that resolves the runtime binary.
Resolves(t) == pc[t] = "init_lock" /\ pc'[t] = "init_start"

\* C24: the resolver returns the override when its file exists, else the
\* executable on the search path, else the cached binary, else what the
\* download leaves in the cache; it consults the network only when the three
\* sources before it missed, and with a source that hits it changes nothing.
C24_ResolutionOrder ==
  [][ \A t \in Threads :
        Resolves(t)
        => LET override == env["COPILOT_CLI_PATH"] # "" /\ host.overrideFile
               cached == host.cacheDir /\ host.cacheFile # "absent"
           IN  /\ override => opts'.CLIPath = env["COPILOT_CLI_PATH"]
               /\ (~override /\ host.onPath) => opts'.CLIPath = "/usr/local/bin/copilot"
               /\ (~override /\ ~host.onPath /\ cached) => opts'.CLIPath = cachedPath
               /\ (override \/ host.onPath \/ cached) => host' = host
               /\ host'.net # host.net
                  => (~override /\ ~host.onPath /\ host.cacheFile = "absent")
               /\ (~override /\ ~host.onPath /\ ~cached)
                  => \/ opts'.CLIPath = ""
                     \/ opts'.CLIPath = cachedPath /\ host'.cacheFile = "binary"
                        /\ host'.net = host.net \o << "registry", "download" >> ]_vars

\* The override names a file that is not there, and the client was made with
\* the executable of the search path.
C24_Witness ==
  /\ env["COPILOT_CLI_PATH"] # ""
  /\ ~host.overrideFile
  /\ host.onPath
  /\ host.cacheFile = "binary"
  /\ client # 0
  /\ opts.CLIPath = LookPathCopilot

\* C25: on a platform outside the supported table the resolver makes no
\* network call, neither the registry lookup nor the download, and when it
\* comes to the download it fails with the unsupported-platform error and
\* returns no path.
C25_UnsupportedPlatform ==
  /\ [](host.platform \notin DOMAIN platformPackage => host.net = << >>)
  /\ [][ \A t \in Threads :
           ( /\ Resolves(t)
             /\ host.platform \notin DOMAIN platformPackage
             /\ ~(env["COPILOT_CLI_PATH"] # "" /\ host.overrideFile)
             /\ ~host.onPath /\ host.cacheDir /\ host.cacheFile = "absent" )
           => ( /\ host'.log = "unsupported platform"
                /\ opts'.CLIPath = ""
                /\ host'.cacheFile = "absent" ) ]_vars

\* On an unsupported platform with no binary anywhere, the resolver has
\* failed and the client was made without a path.
C25_Witness ==
  /\ host.platform = "freebsd/amd64"
  /\ host.log = "unsupported platform"
  /\ host.net = << >>
  /\ client # 0
  /\ opts.CLIPath = ""

\* C26: list_resources returns at most limit entries, 50 when the limit is
\* absent or not positive, and reports how many resources there are apart
\* from the page it returns: the entries are the first limit resources, in
\* order, and the summary counts all of them.  With a limit of 2 and 5
\* resources it returns 2 entries and reports 5.
ListLimit(params) == IF params.Limit <= 0 THEN 50 ELSE params.Limit

C26_ListResourcesPage ==
  (inv.tool = "list_resources" /\ inv.err = "") =>
    LET limit == ListLimit(inv.params)
        objs == cluster.objs
        page == inv.result.resources
    IN  /\ Len(page) <= limit
        /\ inv.result.summary.found = Len(objs)
        /\ inv.result.summary.showingFirst = (IF Len(objs) > limit THEN << limit >> ELSE << >>)
        /\ \A i \in 1..Len(page) : \E j \in 1..Min(limit, Len(objs)) :
             objs[j].unstructured /\ objs[j].name = page[i]
        /\ (\A j \in 1..Len(objs) : objs[j].unstructured) =>
             /\ Len(page) = Min(limit, Len(objs))
             /\ \A i \in 1..Len(page) : page[i] = objs[i].name

C26_Witness ==
  /\ inv.tool = "list_resources"
  /\ inv.err = ""
  /\ inv.params.Limit = 2
  /\ Len(cluster.objs) = 5
  /\ \A j \in 1..5 : cluster.objs[j].unstructured
  /\ inv.result.resources = << 1, 2 >>
  /\ inv.result.summary.found = 5

\* C27: get_logs never returns more than 256 KiB, whatever the tail-line
\* count asked for and however long the stream; it returns the stream whole
\* when it is shorter; and a tail-line count that is absent or not positive
\* goes to the server as 100.
C27_LogCeiling ==
  (inv.tool = "get_logs" /\ inv.err = "") =>
    LET asked == IF inv.params.TailLines <= 0 THEN 100 ELSE inv.params.TailLines
        stream == Min(cluster.log.lines, asked) * cluster.log.lineBytes
    IN  /\ inv.result.tailLines = asked
        /\ inv.result.bytes <= 256 * 1024
        /\ inv.result.bytes = Min(stream, 256 * 1024)

C27_Witness ==
  /\ inv.tool = "get_logs"
  /\ inv.err = ""
  /\ inv.params.TailLines <= 0
  /\ cluster.log.lines > 100
  /\ cluster.log.lines * cluster.log.lineBytes > 256 * 1024
  /\ inv.result.tailLines = 100
  /\ inv.result.bytes = 256 * 1024

\* C28: get_events returns the events retrieved in reverse retrieval order,
\* the most recent first; with an event type given it keeps the events of
\* that type only, with none it keeps every event; and it returns the first
\* limit of them in that order, 30 when the limit is absent or not positive.
Reverse(seq) == [ i \in 1..Len(seq) |-> seq[Len(seq) + 1 - i] ]

C28_EventsRecentFirst ==
  (inv.tool = "get_events" /\ inv.err = "") =>
    LET retrieved == ListEvents(cluster.events, inv.params.ResourceName)
        matching == SelectSeq(Reverse(retrieved),
                              LAMBDA e : inv.params.EventType = ""
                                           \/ e.type = inv.params.EventType)
        limit == IF inv.params.Limit <= 0 THEN 30 ELSE inv.params.Limit
    IN  /\ inv.result.total = Len(retrieved)
        /\ inv.result.events = SubSeq(matching, 1, Min(limit, Len(matching)))

\* Three events retrieved, the second of another type: with the type given
\* and a limit of 1 the tool returns the third alone.
C28_Witness ==
  /\ inv.tool = "get_events"
  /\ inv.err = ""
  /\ inv.params = [ Limit |-> 1, EventType |-> "Warning", ResourceName |-> "" ]
  /\ Len(cluster.events) = 3
  /\ cluster.events[1].type = "Warning"
  /\ cluster.events[2].type = "Normal"
  /\ cluster.events[3].type = "Warning"
  /\ Len(inv.result.events) = 1
  /\ inv.result.events[1].id = 3
  /\ inv.result.total = 3

\* C29: ListModels on a client that is not initialized calls Init first; it
\* returns Init's failure wrapped as "AI not ready: ..." and a failure of the
\* runtime's query wrapped as "failed to list models: ..."; and when, with
\* the lock taken, the client is not initialized or has no runtime handle (it
\* is disabled, or it was stopped after the lazy Init), it returns "AI client
\* not initialized" and does not query: a query is only ever made on a
\* started runtime handle.
InListModels(t) == op[t] = "ListModels" /\ pc[t] # "idle"

C29_ListModelsErrors ==
  /\ [](\A t \in Threads :
          pc[t] = "lm_query" =>
            initialized /\ client # 0 /\ clients[client] = "started")
  /\ [][\A t \in Threads :
          /\ (pc[t] = "idle" /\ op'[t] = "ListModels" /\ pc'[t] # "idle") =>
               pc'[t] = (IF initialized THEN "lm_rlock" ELSE "init_lock")
          /\ (InListModels(t) /\ pc[t] = "init_start" /\ clients'[client] = "failed") =>
               (pc'[t] = "idle" /\ result'[t] = "AI not ready: copilot init failed")
          /\ (InListModels(t) /\ pc[t] \in { "init_lock", "init_start" } /\ pc'[t] # pc[t]
                /\ ~(pc[t] = "init_start" /\ clients'[client] = "failed")) =>
               pc'[t] \in { "init_start", "lm_rlock" }
          /\ (pc[t] = "lm_rlock" /\ pc'[t] # "lm_rlock") =>
               IF ~initialized \/ client = 0
                 THEN pc'[t] = "idle" /\ result'[t] = "AI client not initialized"
                 ELSE pc'[t] = "lm_query"
          /\ (pc[t] = "lm_query" /\ pc'[t] # "lm_query") =>
               (pc'[t] = "idle" /\ result'[t] \in { "models", "failed to list models" })
       ]_vars

\* ListModels found the client initialized, or made it so, and the client
\* was stopped before ListModels took the lock: it returned the error.
C29_Witness ==
  \E t \in Threads :
    /\ enabled
    /\ op[t] = "ListModels"
    /\ pc[t] = "idle"
    /\ result[t] = "AI client not initialized"
    /\ client = 0
    /\ \E c \in ClientIds : clients[c] = "stopped"

\* C30: whenever a session is cached, the tool list it was created with is
\* the orchestrator's filtered tool list: a step that changes the filtered
\* list, in SetSkill or in SetTools, leaves no session cached.
C30_SessionToolScope ==
  /\ [](session # 0 => sessions[session].tools = tools)
  /\ [][tools' # tools => session' = 0]_vars

\* C33: in every state, a cached session means the client is initialized and
\* has a runtime handle, an initialized client has a runtime handle, and the
\* cached session is a live session of that handle, which is started: no
\* session is cached on a runtime that was stopped or never started.
C33_SessionNeedsRuntime ==
  /\ session # 0 =>
       /\ initialized
       /\ client # 0
       /\ sessions[session].status = "live"
       /\ sessions[session].client = client
       /\ clients[client] = "started"
  /\ initialized => client # 0

\* A session was cached, Stop destroyed it and stopped its runtime, and a
\* session is cached again, on a second runtime.
C33_Witness ==
  /\ session # 0
  /\ \E c \in ClientIds : c # client /\ clients[c] = "stopped"
  /\ \E s \in SessionIds : s # session /\ sessions[s].destroyedBy = "Stop"

\* C40: every runtime client Init has made is the orchestrator's current
\* handle or has had Stop called on it: a retry of a failed Init never
\* replaces the earlier handle without stopping it.
C40_NoHandleDropped ==
  \A c \in ClientIds : clients[c] # "none" => (c = client \/ clients[c] = "stopped")

\* C39: Stop is not terminal.  Stop leaves the client not initialized, with
\* no handle and no session, and leaves the model, the skill and both tool
\* lists as they were; a Send or ListModels on an enabled client that is not
\* initialized calls Init, which makes a runtime client that did not exist
\* before; and a session that becomes the cached one did not exist before and
\* is created on the current, started runtime client.
StopReturns(t) == pc[t] = "stop_client" /\ pc'[t] = "idle"

C39_StopNotTerminal ==
  [][ /\ \A t \in Threads :
           /\ (op'[t] = "Stop" /\ pc'[t] = "stop_client") =>
                UNCHANGED << cfgVars, allTools, tools >>
           /\ StopReturns(t) =>
                /\ ~initialized' /\ client' = 0 /\ session' = 0
                /\ UNCHANGED << cfgVars, allTools, tools >>
           /\ (pc[t] = "idle" /\ pc'[t] # "idle" /\ op'[t] \in { "Send", "ListModels" }
                 /\ enabled /\ ~initialized) =>
                pc'[t] = "init_lock"
           /\ (pc[t] = "init_lock" /\ enabled /\ ~initialized /\ pc'[t] # "init_lock") =>
                /\ pc'[t] = "init_start"
                /\ client' # client
                /\ clients[client'] = "none"
                /\ clients'[client'] = "new"
      /\ (session' # 0 /\ session' # session) =>
           /\ sessions[session'].status = "free"
           /\ sessions'[session'].status = "live"
           /\ sessions'[session'].client = client
           /\ clients[client] = "started"
           /\ sessions'[session'].model = cfgModel
           /\ sessions'[session'].skill = cfgSkill
           /\ sessions'[session'].tools = tools
    ]_vars

\* A Send after a Stop is in its turn on a second session, made on a second
\* runtime client.
C39_Witness ==
  \E t \in Threads :
    /\ op[t] = "Send"
    /\ pc[t] = "wait"
    /\ held[t] = session
    /\ session # 0
    /\ sessions[session].client = client
    /\ \E c \in ClientIds : c # client /\ clients[c] = "stopped"
    /\ \E s \in SessionIds : s # session /\ sessions[s].destroyedBy = "Stop"

\* C34: with two Send calls running at once on one orchestrator, each
\* listener is called only for the events of its own turn: no delta,
\* reasoning or tool event of one turn reaches the listener of the other.
C34_OwnTurnOnly ==
  \A t \in Threads : \A i \in 1..Len(calls[t]) : calls[t][i].turn = t

\* C35: of the callbacks one Send makes on its listener, ResponseStart is the
\* first and only the first, ResponseComplete or ResponseFailed is the last,
\* so every delta, reasoning and tool callback comes between the two; and
\* the listener of a Send that has returned is called no more.
C35_CallbacksInsideTurn ==
  \A t \in Threads :
    /\ \A i \in 1..Len(calls[t]) :
         /\ (calls[t][i].cb = "ResponseStart") <=> (i = 1)
         /\ calls[t][i].cb \in { "ResponseComplete", "ResponseFailed" } => i = Len(calls[t])
    /\ pc[t] = "idle" => calls[t] = << >>

\* C32: when a Send of the chat view returns without an error, the text the
\* view records as the assistant's message is the text ResponseComplete
\* delivered, if that is not empty, whatever deltas the listener was given
\* and wherever they fell; the deltas are the record only when no final text
\* came.
Deltas(cs) ==
  LET ds == SelectSeq(cs, LAMBDA c : c.cb = "ResponseDelta")
  IN  [ i \in 1..Len(ds) |-> ds[i].arg ]

C32_FinalTextRecorded ==
  [][ \A t \in Threads :
        (SendReturns(t) /\ result'[t] = "nil")
        => LET final == Content(resp[t])
           IN  /\ final # "" =>
                    /\ streamedContent(<< >>, calls[t]) = << final >>
                    /\ response(<< >>, calls[t]) = << final >>
               /\ final = "" => streamedContent(<< >>, calls[t]) = Deltas(calls[t]) ]_vars

\* C31: during a turn each event the session emits is relayed as at most one
\* callback, of the kind that matches its type, carrying its payload, made
\* after the callbacks of every event emitted before it; an event without
\* its payload, a session error and an event of any other type are relayed
\* as no callback.
CallbackOf(type) ==
  CASE type \in { "assistant.message_delta", "assistant.streaming_delta" } -> "ResponseDelta"
    [] type = "assistant.reasoning_delta" -> "ReasoningDelta"
    [] type = "assistant.reasoning" -> "ReasoningComplete"
    [] type = "tool.execution_start" -> "ToolStart"
    [] type = "tool.execution_complete" -> "ToolComplete"
    [] OTHER -> "none"

C31_EventsRelayedInOrder ==
  [][ \A t \in Threads : \A e \in AllEvents :
        TurnEvent(t, e) =>
          \A u \in Threads :
            IF u \in sessions[held[t]].subs /\ e.payload # "absent" /\ CallbackOf(e.type) # "none"
              THEN calls'[u] = Append(calls[u], Call(CallbackOf(e.type), e.payload, t))
              ELSE calls'[u] = calls[u] ]_vars

\* A tool start and then a reasoning text were emitted, and the listener got
\* ToolStart and then ReasoningComplete after its ResponseStart.
C31_Witness ==
  /\ pc[1] = "wait"
  /\ Len(calls[1]) = 3
  /\ calls[1][2] = Call("ToolStart", "text", 1)
  /\ calls[1][3] = Call("ReasoningComplete", "text", 1)

\* C38: a download or an extraction that fails leaves no file at the cache
\* path, so the path the resolver returns from the cache is that of a whole
\* binary, and a resolution after a failed one downloads again.
C38_FailedDownloadLeavesNoFile ==
  /\ [](host.cacheFile \in { "absent", "binary" })
  /\ [][ \A t \in Threads :
           (Resolves(t) /\ host.log # "" /\ host.cacheFile # "binary"
              /\ ~(env["COPILOT_CLI_PATH"] # "" /\ host.overrideFile)
              /\ ~host.onPath /\ host.cacheDir
              /\ host.platform \in DOMAIN platformPackage)
           => host'.net = host.net \o << "registry" >>
              \/ host'.net = host.net \o << "registry", "download" >> ]_vars

\* The runtime calls return: client.Start as well as the calls made under
\* Send's deadline.
ReturningSpec == LiveSpec /\ \A t \in Threads : WF_vars(InitStart(t))

\* Thread t is about to take the lock, exclusively or shared.
AtLock(t) == pc[t] \in { "init_lock", "ensure_lock", "lm_rlock" }

\* Thread t is where Send calls its listener or has its handler called.
AtCallback(t) == pc[t] \in { "resp_start", "wait", "notify", "unsubscribe" }

\* C37: no interleaving of the orchestrator's methods deadlocks on the lock:
\* a thread that is about to take the lock does not hold it, the lock has one
\* writer or readers and never both, the listener is called by a thread that
\* does not hold the lock, and, the runtime calls returning, every call that
\* was entered returns and the lock is free again and again.
C37_NoDeadlock ==
  /\ [](\A t \in Threads :
          /\ AtLock(t) => ~HoldsLock(t)
          /\ AtCallback(t) => ~HoldsLock(t)
          /\ pc[t] = "idle" => ~HoldsLock(t))
  /\ [](mxWriter # 0 => mxReaders = {})
  /\ \A t \in Threads : (pc[t] # "idle") ~> (pc[t] = "idle")
  /\ (~CanLock) ~> CanLock

\* One thread holds the lock inside CreateSession while the other is waiting
\* for the lock in ListModels.
C37_Witness ==
  \E t, u \in Threads :
    /\ mxWriter = t
    /\ pc[t] = "ensure_create"
    /\ pc[u] = "lm_rlock"

\* The goroutines of sendMessage that are inside Send.
InSend == { t \in Threads : op[t] = "Send" /\ pc[t] # "idle" }

\* C36: a chat view has at most one turn in flight: a sendMessage that finds
\* the flag set returns and calls nothing, the flag is set exactly while one
\* sendMessage is past the test, the return of that sendMessage clears it, and
\* so a view whose flag is set gets to send again.
C36_OneTurnInFlight ==
  /\ [](/\ Cardinality(InSend) <= 1
        /\ Cardinality(view.running) <= 1
        /\ InSend \subseteq view.running
        /\ view.streaming <=> view.running # {})
  /\ [][view.streaming /\ nCalls' # nCalls =>
          /\ view' = view
          /\ op' = op
          /\ pc' = pc]_vars
  /\ [][\A t \in Threads :
          t \in view.running /\ t \notin view'.running => ~view'.streaming]_vars
  /\ view.streaming ~> ~view.streaming

====
